---- MODULE Spec2Model ----
(***************************************************************************)
(* Per-room state machine of the Thirteen (Tien Len) game server.          *)
(*                                                                         *)
(* One room is modelled.  Its handlers are the socket.io handlers of       *)
(* roomHandlers (join_room, sit_chair, stand_up, toggle_ready),            *)
(* gameHandlers (start_game, restart_game, deal_cards), playHandlers       *)
(* (play_cards, pass), connectionHandlers (disconnect and its grace        *)
(* timer), botHandlers (add_bot, remove_bot) and the timers of botLogic.   *)
(* Every handler runs to completion between two events (node.js), so one   *)
(* action is one handler or one timer callback.                            *)
(*                                                                         *)
(* A card "RS" is the number rankValue * 10 + suitValue, with RANK_ORDER   *)
(* 3 -> 1 .. 2 -> 13 and SUIT_ORDER spades -> 1 .. hearts -> 4.            *)
(* null (an id, a turn, a winner) is 0.                                    *)
(***************************************************************************)
EXTENDS Integers, Sequences, FiniteSets, TLC

\* ------------------------------------------------------------------ bounds
NumRanks == 2          \* ranks of the deck explored by Spec (13 in the code)
NumSuits == 3          \* suits of the deck explored by Spec (4 in the code)
HandSize == 2          \* cards per player explored by Spec (13 in the code)
NumUsers == 2          \* human users that may join the room
MaxFaults == 1         \* disconnects, stand-ups and bot removals of a started game
MaxRound == 2          \* the round counter is explored up to this value
MaxPlay == 2           \* length of a submitted cards array
MaxSeed == 0           \* outcomes of the random source: 0..MaxSeed
MaxDealPlayers == 5    \* players of a room in DealSpec
MaxDealSeed == 2       \* outcomes of the random source in DealSpec: 0..MaxDealSeed
MaxLobbySocks == 3     \* socket ids handed out in LobbySpec
MaxLobbyViewers == 2   \* length of room.viewers in LobbySpec
MaxTurnSeed == 3       \* outcomes of the random source in TurnSpec: 0..MaxTurnSeed
TurnHand == 2          \* cards per player in TurnSpec
MaxTurnFaults == 2     \* disconnects of a game in TurnSpec
MaxNow == 12   \* minutes of the periodic cleanup that are followed
MaxRequests == 3   \* join_room requests in flight for one room id
MaxCountdownFaults == 2   \* stand_up and disconnect requests while readying
RingAbsent == 2   \* participants of the ring game that have left for good
RingHand == 1   \* cards dealt to each participant of the ring game
RuleRanks == 2         \* ranks of the cards in RulesSpec: the top RuleRanks of the 13
MaxRuleCards == 4      \* cards of a rule call in RulesSpec
MaxRuleCombo == 2      \* cards of the combination on the table in RulesSpec
ClassRanks == 5        \* ranks of the cards in ClassifySpec: the top ClassRanks of the 13
MaxClassCards == 4     \* cards of a call in ClassifySpec
BeatRanks == 5         \* ranks of the cards in BeatSpec: the top BeatRanks of the 13
BeatSuits == 3         \* suits of the cards in BeatSpec
MaxBeatCards == 4      \* cards of a play in BeatSpec
MaxBeatCombo == 3      \* cards of the combination on the table in BeatSpec

\* -------------------------------------------------------- program constants
FullRanks == 13
FullSuits == 4
cardsPerPlayer == 13
CountdownStart == 6
NumChairs == 4

CleanupMinutes == 2
IdleMinutes == 10
NullId == 0
BotIdBase == 100

\* ------------------------------------------------------------ sequences
Range(s) == {s[i] : i \in DOMAIN s}

Includes(s, x) == \E i \in DOMAIN s : s[i] = x

\* a filter that drops only the first submitted card
FilterFirstOnly(s, cards) ==
  IF cards = <<>> THEN s ELSE SelectSeq(s, LAMBDA c : c # cards[1])

\* Array.prototype.filter with predicate "element is not in cards"
RECURSIVE FilterOut(_, _)
FilterOut(s, cards) ==
  IF s = <<>> THEN <<>>
  ELSE IF Includes(cards, Head(s)) THEN FilterOut(Tail(s), cards)
       ELSE <<Head(s)>> \o FilterOut(Tail(s), cards)

\* Array.prototype.slice(a, b) with 0-based a, b exclusive, clipped to the array
Slice(s, a, b) ==
  LET lo == IF a < Len(s) THEN a ELSE Len(s)
      hi == IF b < Len(s) THEN b ELSE Len(s)
  IN [i \in 1..(hi - lo) |-> s[lo + i]]

\* ----------------------------------------------------------------- cards
rankValue(card) == card \div 10
suitValue(card) == card % 10

\* generateDeck: for each suit, for each rank, push rank+suit
generateDeck(nr, ns) ==
  [k \in 1..(nr * ns) |-> (((k - 1) % nr) + 1) * 10 + (((k - 1) \div nr) + 1)]

\* shuffleDeck: Fisher-Yates, i from length-1 down to 1, j = floor(random*(i+1)),
\* swap deck[i] and deck[j].  The random source yields (seed + 1) % (i + 1).
RandomIndex(seed, i) == (seed + 1) % (i + 1)

Swap(deck, i, j) ==
  [deck EXCEPT ![i + 1] = deck[j + 1], ![j + 1] = deck[i + 1]]

RECURSIVE ShuffleFrom(_, _, _)
ShuffleFrom(deck, seed, i) ==
  IF i <= 0 THEN deck
  ELSE ShuffleFrom(Swap(deck, i, RandomIndex(seed, i)), seed, i - 1)

shuffleDeck(deck, seed) == ShuffleFrom(deck, seed, Len(deck) - 1)

\* sortCards comparator: rank first, then suit
CardLess(a, b) ==
  IF rankValue(a) # rankValue(b) THEN rankValue(a) < rankValue(b)
  ELSE suitValue(a) < suitValue(b)

RECURSIVE InsertSorted(_, _)
InsertSorted(c, s) ==
  IF s = <<>> THEN <<c>>
  ELSE IF CardLess(c, Head(s)) THEN <<c>> \o s
       ELSE <<Head(s)>> \o InsertSorted(c, Tail(s))

RECURSIVE sortCards(_)
sortCards(cards) ==
  IF cards = <<>> THEN <<>>
  ELSE InsertSorted(Head(cards), sortCards(Tail(cards)))

\* the suit of the first card instead of the highest suit
FirstSuit(s) == suitValue(s[1])

MaxSuit(s) == CHOOSE m \in {suitValue(s[i]) : i \in DOMAIN s} :
                \A i \in DOMAIN s : suitValue(s[i]) <= m

\* ---------------------------------------------------------- combinations
NoCombo == [type |-> "null", cards |-> <<>>, rank |-> 0, length |-> 0]

AllSameRank(s) == \A i \in DOMAIN s : rankValue(s[i]) = rankValue(s[1])

\* a run check that lets a rank repeat
IsRunRepeating(s) == \A i \in DOMAIN s : i = 1 \/ rankValue(s[i]) >= rankValue(s[i - 1])

IsRun(s) == \A i \in DOMAIN s : i = 1 \/ rankValue(s[i]) = rankValue(s[i - 1]) + 1

\* cardUtils.validateCombination
validateCombination(cards) ==
  LET sorted == sortCards(cards)
      n == Len(cards)
  IN IF n = 0 THEN NoCombo
     ELSE IF n = 1 THEN
       [type |-> "single", cards |-> sorted,
        rank |-> rankValue(sorted[1]) * 10 + suitValue(sorted[1]), length |-> 1]
     ELSE IF n = 2 /\ rankValue(sorted[1]) = rankValue(sorted[2]) THEN
       [type |-> "pair", cards |-> sorted,
        rank |-> rankValue(sorted[1]) * 10 + MaxSuit(sorted), length |-> 2]
     ELSE IF n = 3 /\ AllSameRank(sorted) THEN
       [type |-> "triple", cards |-> sorted,
        rank |-> rankValue(sorted[1]) * 10 + MaxSuit(sorted), length |-> 3]
     ELSE IF n = 4 /\ AllSameRank(sorted) THEN
       [type |-> "quad", cards |-> sorted,
        rank |-> rankValue(sorted[1]) * 10 + MaxSuit(sorted), length |-> 4]
     ELSE IF n >= 3 THEN
       IF \E i \in DOMAIN sorted : rankValue(sorted[i]) = 13 THEN NoCombo
       ELSE IF IsRun(sorted) THEN
         [type |-> "straight", cards |-> sorted,
          rank |-> rankValue(sorted[n]) * 10 + suitValue(sorted[n]), length |-> n]
       ELSE NoCombo
     ELSE NoCombo

\* a comparison of strengths that ignores the type and the length
canBeatAnyType(newCombo, currentCombo) ==
  IF currentCombo = NoCombo THEN TRUE ELSE newCombo.rank > currentCombo.rank

\* a comparison of types and lengths that ignores the strength
canBeatSameType(newCombo, currentCombo) ==
  IF currentCombo = NoCombo THEN TRUE
  ELSE IF newCombo.type # currentCombo.type THEN FALSE
  ELSE IF newCombo.type = "straight" /\ newCombo.length # currentCombo.length THEN FALSE
  ELSE TRUE

\* cardUtils.canBeatCombination
canBeatCombination(newCombo, currentCombo) ==
  IF currentCombo = NoCombo THEN TRUE
  ELSE IF newCombo.type # currentCombo.type THEN FALSE
  ELSE IF newCombo.type = "straight" /\ newCombo.length # currentCombo.length THEN FALSE
  ELSE newCombo.rank > currentCombo.rank


\* ------------------------------------------- gameLogic (used by botLogic)
\* getPairsFromCardsGL: the ranks that occur exactly twice
PairRanks(s) ==
  {r \in {rankValue(s[i]) : i \in DOMAIN s} :
     Cardinality({i \in DOMAIN s : rankValue(s[i]) = r}) = 2}

IsContinuous(rs) == \A r \in rs : r = (CHOOSE m \in rs : \A x \in rs : m <= x)
                                  \/ (r - 1) \in rs

MaxOf(rs) == CHOOSE m \in rs : \A x \in rs : x <= m

\* gameLogic.validateCombination
validateCombinationGL(cards) ==
  LET sorted == sortCards(cards)
      n == Len(cards)
      pairs == PairRanks(sorted)
  IN IF n = 0 THEN NoCombo
     ELSE IF n = 1 THEN
       [type |-> "single", cards |-> sorted,
        rank |-> rankValue(sorted[1]) * 10 + suitValue(sorted[1]), length |-> 1]
     ELSE IF n = 2 /\ rankValue(sorted[1]) = rankValue(sorted[2]) THEN
       [type |-> "pair", cards |-> sorted,
        rank |-> rankValue(sorted[1]) * 10 + MaxSuit(sorted), length |-> 2]
     ELSE IF n = 3 /\ rankValue(sorted[1]) = rankValue(sorted[2])
                   /\ rankValue(sorted[2]) = rankValue(sorted[3]) THEN
       [type |-> "triple", cards |-> sorted,
        rank |-> rankValue(sorted[1]) * 10 + MaxSuit(sorted), length |-> 3]
     ELSE IF n = 4 /\ AllSameRank(sorted) THEN
       [type |-> "quad", cards |-> sorted,
        rank |-> rankValue(sorted[1]) * 10 + MaxSuit(sorted), length |-> 4]
     ELSE IF n = 4 /\ \E r \in {rankValue(sorted[i]) : i \in DOMAIN sorted} :
                        Cardinality({i \in DOMAIN sorted : rankValue(sorted[i]) = r}) = 4 THEN
       [type |-> "four_of_kind", cards |-> sorted,
        rank |-> rankValue(sorted[1]) * 10 + 3, length |-> 4]
     ELSE IF n = 6 /\ Cardinality(pairs) = 3 /\ IsContinuous(pairs) THEN
       [type |-> "three_pairs", cards |-> sorted,
        rank |-> MaxOf(pairs) * 10 + 1, length |-> 3]
     ELSE IF n = 8 /\ Cardinality(pairs) = 4 /\ IsContinuous(pairs) THEN
       [type |-> "four_pairs", cards |-> sorted,
        rank |-> MaxOf(pairs) * 10 + 2, length |-> 4]
     ELSE IF n >= 3 THEN
       IF \E i \in DOMAIN sorted : rankValue(sorted[i]) = 13 THEN NoCombo
       ELSE IF IsRun(sorted) THEN
         [type |-> "straight", cards |-> sorted,
          rank |-> rankValue(sorted[n]) * 10 + suitValue(sorted[n]), length |-> n]
       ELSE NoCombo
     ELSE NoCombo

isSpecialCombination(type) == type \in {"three_pairs", "four_pairs", "four_of_kind"}

powerOrder(type) ==
  IF type = "three_pairs" THEN 1
  ELSE IF type = "four_of_kind" THEN 2
  ELSE IF type = "four_pairs" THEN 3 ELSE 0

compareSpecialCombinations(newCombo, currentCombo) ==
  IF newCombo.type = currentCombo.type THEN newCombo.rank > currentCombo.rank
  ELSE powerOrder(newCombo.type) > powerOrder(currentCombo.type)

\* gameLogic.canBeatCombination
canBeatCombinationGL(newCombo, currentCombo) ==
  LET isCurrentTwo == currentCombo.type = "single"
                      /\ rankValue(currentCombo.cards[1]) = 13
  IN IF currentCombo = NoCombo THEN TRUE
     ELSE IF isCurrentTwo /\ newCombo.type = "three_pairs" THEN TRUE
     ELSE IF isCurrentTwo /\ newCombo.type \in {"four_pairs", "four_of_kind"}
       THEN Len(currentCombo.cards) <= 2
     ELSE IF isCurrentTwo /\ newCombo.type = "quad" THEN TRUE
     ELSE IF newCombo.type # currentCombo.type THEN
       IF isSpecialCombination(newCombo.type) /\ isSpecialCombination(currentCombo.type)
       THEN compareSpecialCombinations(newCombo, currentCombo)
       ELSE FALSE
     ELSE IF newCombo.type = "straight" /\ newCombo.length # currentCombo.length THEN FALSE
     ELSE newCombo.rank > currentCombo.rank

\* generateCombinations(array, k): the k-element subsequences, in array order
SubSeq_(s, idx) ==
  LET RECURSIVE pick(_)
      pick(i) == IF i > Len(s) THEN <<>>
                 ELSE IF i \in idx THEN <<s[i]>> \o pick(i + 1) ELSE pick(i + 1)
  IN pick(1)

generateCombinations(array, k) ==
  {SubSeq_(array, idx) : idx \in {x \in SUBSET DOMAIN array : Cardinality(x) = k}}

\* gameLogic.getValidMoves (the moves as a set: makeBotMove picks one at random)
getValidMoves(playerHand, currentCombo) ==
  IF currentCombo = NoCombo
  THEN {c \in UNION {generateCombinations(playerHand, k) : k \in 1..Len(playerHand)} :
          validateCombinationGL(c) # NoCombo}
  ELSE IF currentCombo.type \in {"single", "pair", "triple", "quad", "straight"}
  THEN LET comboSize == IF currentCombo.type = "single" THEN 1
                        ELSE IF currentCombo.type = "pair" THEN 2
                        ELSE IF currentCombo.type = "triple" THEN 3
                        ELSE IF currentCombo.type = "quad" THEN 4
                        ELSE currentCombo.length
       IN {c \in generateCombinations(playerHand, comboSize) :
             /\ validateCombinationGL(c) # NoCombo
             /\ validateCombinationGL(c).type = currentCombo.type
             /\ canBeatCombinationGL(validateCombinationGL(c), currentCombo)}
  ELSE {}

\* ------------------------------------------------------------------ state
VARIABLES
  players,            \* room.players: [id, userId, hand, connected, ready, isBot, chair]
  viewers,            \* room.viewers: [id, userId]
  chairs,             \* room.chairs: chair index -> id or null
  pile,               \* room.pile
  turn,               \* room.turn
  currentCombination, \* room.currentCombination
  gameStarted,        \* room.gameStarted
  winner,             \* room.winner
  winnerLastCards,    \* room.winnerLastCards
  passes,             \* room.passes (ids pushed at most once each)
  lastPlayer,         \* room.lastPlayer
  round,              \* room.round
  deckShuffled,       \* room.deckShuffled
  countdownTime,      \* room.countdownTime (0 is null)
  countdownInterval,  \* room.countdownInterval is set
  liveIntervals,      \* setInterval timers created and not yet cleared
  rooms,              \* rooms.get(roomId): the registered room object, 0 when none
  roomObjects,        \* room objects built so far: the userIds of each one's players
  requests,           \* join_room requests in flight: position and local room
  now,                \* Date.now() in minutes since the room was built
  lastActivity,       \* room.lastActivity in the same minutes
  sock,               \* user -> id of the user's live socket, 0 when none
  nextSock,           \* next socket id socket.io hands out
  botAdded,           \* add_bot has created its bot
  played,             \* a start has been explored
  faults,             \* disconnects, stand-ups and bot removals so far
  graceTimers,        \* socket ids with a pending disconnect grace timer
  botTimers,          \* pending bot timers: [kind, bot, cards]
  detached,           \* bot objects removed from room.players: id -> hand
  owner,              \* room.owner (a user id), 0 when the room has none
  created,            \* the room is in the rooms map
  callCards,          \* the cards / playerHand argument of a rule function call
  callCombo,          \* the currentCombo argument of a rule function call
  verdict,            \* what the rule functions returned for these arguments
  saveResult,         \* what the last saveRoomToDB call returned
  last                \* outcome of the request handled last

seatVars == <<viewers, chairs>>

tableVars == <<pile, currentCombination, passes, round>>

gameVars == <<pile, turn, currentCombination, gameStarted, winner, winnerLastCards,
              passes, lastPlayer, round, deckShuffled>>

countdownVars == <<countdownTime, countdownInterval, liveIntervals>>

roomVars == <<players, seatVars, gameVars, countdownVars>>

sockVars == <<sock, nextSock>>

timerVars == <<graceTimers, botTimers, detached>>

envVars == <<sockVars, botAdded, played, faults, timerVars>>

mapVars == <<owner, created>>

ruleVars == <<callCards, callCombo, verdict>>

clockVars == <<now, lastActivity>>

loadVars == <<rooms, roomObjects, requests, clockVars>>

vars == <<roomVars, envVars, mapVars, ruleVars, loadVars, saveResult, last>>

Users == 1..NumUsers
MaxPlayers == NumUsers + 1
SockIds == 1..(NumUsers + MaxFaults)
BotId == BotIdBase + 1
Deck == generateDeck(NumRanks, NumSuits)
DeckCards == Range(Deck)
Plays == {s \in UNION {[1..n -> DeckCards] : n \in 0..MaxPlay} :
            \A i \in DOMAIN s : i = 1 \/ s[i - 1] <= s[i]}
Seeds == 0..MaxSeed

\* no rule function has been called
NoResult == [done |-> FALSE, combo |-> NoCombo, accepted |-> FALSE]
NoChoice == [done |-> FALSE, pass |-> FALSE, move |-> <<>>]
NoVerdict == [cu |-> NoResult, gl |-> NoResult, bot |-> NoChoice]

\* no join_room request has been received
NoLoads ==
  /\ rooms = 0
  /\ roomObjects = <<>>
  /\ requests = [r \in 1..MaxRequests |-> [pc |-> "idle", room |-> 0]]
  /\ now = 0
  /\ lastActivity = 0

NoCall ==
  /\ callCards = <<>>
  /\ callCombo = NoCombo
  /\ verdict = NoVerdict
  /\ saveResult = "none"
  /\ NoLoads

\* roomManager.createRoom, then the fields the handlers add on first use
Init ==
  /\ players = <<>>
  /\ viewers = <<>>
  /\ chairs = [c \in 1..NumChairs |-> NullId]
  /\ pile = <<>>
  /\ turn = NullId
  /\ currentCombination = NoCombo
  /\ gameStarted = FALSE
  /\ winner = NullId
  /\ winnerLastCards = <<>>
  /\ passes = {}
  /\ lastPlayer = NullId
  /\ round = 1
  /\ deckShuffled = FALSE
  /\ countdownTime = 0
  /\ countdownInterval = FALSE
  /\ liveIntervals = 0
  /\ sock = [u \in Users |-> 0]
  /\ nextSock = 1
  /\ botAdded = FALSE
  /\ played = FALSE
  /\ faults = 0
  /\ graceTimers = {}
  /\ botTimers = {}
  /\ detached = <<>>
  /\ owner = NullId
  /\ created = TRUE
  /\ NoCall
  /\ last = "other"

\* ---------------------------------------------------------------- helpers
\* what is explored: the room's first game, up to its win; ready toggles and
\* starts before it, disconnects, stand-ups and bot removals (MaxFaults of them)
\* once it is started
Exploring == winner = NullId \/ ~played

\* room.players.findIndex(p => p.id === id), 1-based, 0 when absent
IdxOfId(pl, id) ==
  IF \E i \in DOMAIN pl : pl[i].id = id
  THEN CHOOSE i \in DOMAIN pl : pl[i].id = id /\ \A j \in 1..(i - 1) : pl[j].id # id
  ELSE 0

IdxOfUser(pl, uid) ==
  IF \E i \in DOMAIN pl : pl[i].userId = uid
  THEN CHOOSE i \in DOMAIN pl : pl[i].userId = uid /\ \A j \in 1..(i - 1) : pl[j].userId # uid
  ELSE 0

RemoveAt(s, i) == [k \in 1..(Len(s) - 1) |-> IF k < i THEN s[k] ELSE s[k + 1]]

\* activePlayers / passedPlayers of the pass handlers
activePlayers(pl) == {i \in DOMAIN pl : Len(pl[i].hand) > 0}
passedPlayers(pl, ps) == {i \in activePlayers(pl) : pl[i].id \in ps}
AllOthersPassed(pl, ps) ==
  Cardinality(passedPlayers(pl, ps)) = Cardinality(activePlayers(pl)) - 1

\* "Move to next player" of play_cards, pass, handleBotPlay and handleBotPass:
\* the next entry of room.players, or if it has passed the first entry after the
\* actor that has not passed; room.turn is left alone when there is none.
\* An actor that is not in room.players has index -1; with no players at all the
\* handler throws at nextPlayer.id and room.turn stays.
NextTurn(pl, ps, id, t) ==
  LET n == Len(pl)
      currentIdx == IdxOfId(pl, id) - 1
      at(i) == pl[((currentIdx + i) % n) + 1]
      ok == {i \in 1..(n - 1) : at(i).id \notin ps}
  IN IF n = 0 THEN t
     ELSE IF at(1).id \in ps
     THEN IF ok = {} THEN t
          ELSE at(CHOOSE i \in ok : \A j \in ok : i <= j).id
     ELSE at(1).id

\* "Move to next player" of the disconnect grace timer: the next entry, or if
\* it is disconnected the first connected entry after the actor, else the next.
NextConnected(pl, id) ==
  LET n == Len(pl)
      currentIdx == IdxOfId(pl, id) - 1
      at(i) == pl[((currentIdx + i) % n) + 1]
      ok == {i \in 1..(n - 1) : at(i).connected}
  IN IF ~at(1).connected
     THEN IF ok = {} THEN at(1).id
          ELSE at(CHOOSE i \in ok : \A j \in ok : i <= j).id
     ELSE at(1).id

\* clearInterval(room.countdownInterval); room.countdownTime = null
ClearCountdown ==
  /\ countdownInterval' = FALSE
  /\ countdownTime' = 0
  /\ liveIntervals' = IF countdownInterval THEN liveIntervals - 1 ELSE liveIntervals

\* setTimeout(() => makeBotMove(room, p, io)) when the entry holding the turn is a bot
BotMoveTimer(pl, t) ==
  LET i == IdxOfId(pl, t)
  IN IF i # 0 /\ pl[i].isBot THEN {[kind |-> "move", bot |-> t, cards |-> <<>>]} ELSE {}

\* --------------------------------------------------------- room handlers
\* the user has connected before (users are interchangeable: they first connect
\* in the order of their numbers)
Known(u) ==
  \/ sock[u] # 0
  \/ \E i \in DOMAIN players : players[i].userId = u
  \/ \E i \in DOMAIN viewers : viewers[i].userId = u

\* join_room that never looks for an existing entry
JoinRoomAlwaysPush(u) ==
  LET fresh == sock[u] = 0
      sid == IF fresh THEN nextSock ELSE sock[u]
  IN /\ Exploring
     /\ UNCHANGED <<mapVars, ruleVars, loadVars, saveResult>>
     /\ fresh => nextSock \in SockIds
     /\ (fresh /\ u > 1) => Known(u - 1)
     /\ Len(players) < MaxPlayers
     /\ sock' = [sock EXCEPT ![u] = sid]
     /\ nextSock' = IF fresh THEN nextSock + 1 ELSE nextSock
     /\ players' = Append(players, [id |-> sid, userId |-> u, hand |-> <<>>,
                                    connected |-> TRUE, ready |-> FALSE,
                                    isBot |-> FALSE, chair |-> 0])
     /\ last' = "other"
     /\ UNCHANGED <<seatVars, gameVars, countdownVars, botAdded, played, faults,
                    timerVars>>

\* join_room: a user with no live socket connects first (a fresh socket id)
JoinRoomSave(u, results) ==
  LET fresh == sock[u] = 0
      sid == IF fresh THEN nextSock ELSE sock[u]
      byUser == IdxOfUser(players, u)
      seatIndex == IF byUser # 0 THEN byUser ELSE IdxOfId(players, sid)
  IN /\ Exploring
     /\ UNCHANGED <<mapVars, ruleVars, loadVars>>
     /\ saveResult' \in results
     /\ fresh => nextSock \in SockIds
     /\ (fresh /\ u > 1) => Known(u - 1)
     /\ seatIndex = 0 => Len(players) < MaxPlayers
     /\ sock' = [sock EXCEPT ![u] = sid]
     /\ nextSock' = IF fresh THEN nextSock + 1 ELSE nextSock
     /\ players' = IF seatIndex # 0
                   THEN [players EXCEPT ![seatIndex].connected = TRUE,
                                        ![seatIndex].id = sid]
                   ELSE Append(players, [id |-> sid, userId |-> u, hand |-> <<>>,
                                         connected |-> TRUE, ready |-> FALSE,
                                         isBot |-> FALSE, chair |-> 0])
     /\ last' = "other"
     /\ UNCHANGED <<seatVars, gameVars, countdownVars, botAdded, played, faults,
                    timerVars>>

\* join_room with the store left out
JoinRoom(u) == JoinRoomSave(u, {saveResult})

\* sit_chair: a viewer takes an empty chair and becomes a new entry of room.players
SitChair(u, chairIndex) ==
  LET sid == sock[u]
      viewerIndex == IF \E i \in DOMAIN viewers : viewers[i].id = sid
                     THEN CHOOSE i \in DOMAIN viewers :
                            viewers[i].id = sid /\ \A j \in 1..(i - 1) : viewers[j].id # sid
                     ELSE 0
  IN /\ Exploring
     /\ UNCHANGED <<mapVars, ruleVars, loadVars, saveResult>>
     /\ sid # 0
     /\ chairs[chairIndex] = NullId
     /\ viewerIndex # 0
     /\ Len(players) < MaxPlayers
     /\ viewers' = RemoveAt(viewers, viewerIndex)
     /\ players' = Append(players, [id |-> sid, userId |-> viewers[viewerIndex].userId,
                                    hand |-> <<>>, connected |-> TRUE, ready |-> FALSE,
                                    isBot |-> FALSE, chair |-> chairIndex])
     /\ chairs' = [chairs EXCEPT ![chairIndex] = sid]
     /\ ClearCountdown
     /\ last' = IF countdownInterval THEN "countdown_cleared" ELSE "other"
     /\ UNCHANGED <<gameVars, envVars>>

\* stand_up: the sender's entry is spliced out of room.players and pushed to viewers
StandUpWhen(u, explored) ==
  LET sid == sock[u]
      playerIndex == IdxOfId(players, sid)
      chairIndex == players[playerIndex].chair
  IN /\ Exploring
     /\ UNCHANGED <<mapVars, ruleVars, loadVars, saveResult>>
     /\ explored
     /\ sid # 0
     /\ playerIndex # 0
     /\ players' = RemoveAt(players, playerIndex)
     /\ chairs' = IF chairIndex # 0 THEN [chairs EXCEPT ![chairIndex] = NullId] ELSE chairs
     /\ ClearCountdown
     /\ viewers' = Append(viewers, [id |-> sid, userId |-> players[playerIndex].userId])
     /\ faults' = faults + 1
     /\ last' = IF countdownInterval THEN "countdown_cleared" ELSE "other"
     /\ UNCHANGED <<gameVars, sockVars, botAdded, played, timerVars>>

\* stand_up as Spec explores it: after a start, MaxFaults times
StandUp(u) == StandUpWhen(u, played /\ faults < MaxFaults)

\* "Initialize game state" of start_game, restart_game and the countdown expiry
StartedPlayers(pl) == [i \in DOMAIN pl |-> [pl[i] EXCEPT !.hand = <<>>, !.ready = FALSE]]

\* "Initialize game state" that leaves the turn state of the last game
ResetGameKeepTurn ==
  /\ gameStarted' = TRUE
  /\ pile' = <<>>
  /\ currentCombination' = NoCombo
  /\ winner' = NullId
  /\ deckShuffled' = TRUE
  /\ players' = StartedPlayers(players)
  /\ played' = TRUE
  /\ UNCHANGED <<passes, lastPlayer, turn, round>>

ResetGame ==
  /\ gameStarted' = TRUE
  /\ pile' = <<>>
  /\ currentCombination' = NoCombo
  /\ winner' = NullId
  /\ passes' = {}
  /\ lastPlayer' = NullId
  /\ turn' = NullId
  /\ round' = 1
  /\ deckShuffled' = TRUE
  /\ players' = StartedPlayers(players)
  /\ played' = TRUE

AllReady(pl) ==
  LET connectedPlayers == {i \in DOMAIN pl : pl[i].connected}
  IN Cardinality(connectedPlayers) >= 2 /\ \A i \in connectedPlayers : pl[i].ready

\* toggle_ready that arms a countdown without clearing the pending one
ToggleReadyNoClear(u) ==
  LET sid == sock[u]
      i == IdxOfId(players, sid)
      pl == [players EXCEPT ![i].ready = ~players[i].ready]
      arm == AllReady(pl) /\ ~gameStarted
  IN /\ Exploring
     /\ UNCHANGED <<mapVars, ruleVars, loadVars, saveResult>>
     /\ ~played
     /\ sid # 0
     /\ i # 0
     /\ players' = pl
     /\ countdownTime' = IF arm THEN CountdownStart ELSE countdownTime
     /\ countdownInterval' = (arm \/ countdownInterval)
     /\ liveIntervals' = liveIntervals + (IF arm THEN 1 ELSE 0)
     /\ last' = "other"
     /\ UNCHANGED <<seatVars, gameVars, envVars>>

\* toggle_ready: flips the flag, clears the countdown and arms a new one when
\* every connected player is ready and no game is started
ToggleReady(u) ==
  LET sid == sock[u]
      i == IdxOfId(players, sid)
      pl == [players EXCEPT ![i].ready = ~players[i].ready]
      arm == AllReady(pl) /\ ~gameStarted
  IN /\ Exploring
     /\ UNCHANGED <<mapVars, ruleVars, loadVars, saveResult>>
     /\ ~played
     /\ sid # 0
     /\ i # 0
     /\ players' = pl
     /\ countdownTime' = IF arm THEN CountdownStart ELSE 0
     /\ countdownInterval' = arm
     /\ liveIntervals' = (IF countdownInterval THEN liveIntervals - 1 ELSE liveIntervals)
                          + (IF arm THEN 1 ELSE 0)
     /\ last' = "other"
     /\ UNCHANGED <<seatVars, gameVars, envVars>>

\* one firing of the countdown interval
CountdownTick ==
  /\ Exploring
  /\ UNCHANGED <<mapVars, ruleVars, loadVars, saveResult>>
  /\ liveIntervals > 0
  /\ IF countdownTime - 1 <= 0
     THEN /\ ~played
          /\ ClearCountdown
          /\ ResetGame
          /\ last' = "countdown_start"
          /\ UNCHANGED <<seatVars, winnerLastCards, sockVars, botAdded, faults, timerVars>>
     ELSE /\ countdownTime' = countdownTime - 1
          /\ last' = "other"
          /\ UNCHANGED <<players, seatVars, gameVars, countdownInterval, liveIntervals,
                         envVars>>

\* ---------------------------------------------------------- game handlers
\* outcomes of a request that end with socket.emit("error", ...)
ErrorOutcomes == {"restart_error"}

\* start_game: at least 2 connected players, all of them ready; a plain return
\* otherwise
StartGame(u) ==
  /\ Exploring
  /\ UNCHANGED <<mapVars, ruleVars, loadVars, saveResult>>
  /\ sock[u] # 0
  /\ ~played
  /\ IF AllReady(players)
     THEN /\ ResetGame
          /\ last' = "start_game"
          /\ UNCHANGED <<seatVars, winnerLastCards, countdownVars, sockVars, botAdded,
                         faults, timerVars>>
     ELSE /\ last' = "start_refused"
          /\ UNCHANGED <<roomVars, envVars>>

\* restart_game: every connected player ready (no minimum); an error otherwise
RestartGame(u) ==
  /\ Exploring
  /\ UNCHANGED <<mapVars, ruleVars, loadVars, saveResult>>
  /\ sock[u] # 0
  /\ ~played
  /\ IF \A i \in DOMAIN players : players[i].connected => players[i].ready
     THEN /\ ResetGame
          /\ winnerLastCards' = <<>>
          /\ last' = "restart_game"
          /\ UNCHANGED <<seatVars, countdownVars, sockVars, botAdded, faults, timerVars>>
     ELSE /\ last' = "restart_error"
          /\ UNCHANGED <<roomVars, envVars>>

\* dealCards without advancing cardIndex
dealCardsSameSlice(pl, deck, n) ==
  [i \in DOMAIN pl |-> IF pl[i].connected THEN [pl[i] EXCEPT !.hand = Slice(deck, 0, n)]
                       ELSE pl[i]]

\* cardUtils.dealCards: the i-th connected player gets deck.slice(i*n, i*n + n)
dealCards(pl, deck, n) ==
  [i \in DOMAIN pl |->
     IF pl[i].connected
     THEN LET k == Cardinality({j \in 1..(i - 1) : pl[j].connected})
          IN [pl[i] EXCEPT !.hand = Slice(deck, k * n, k * n + n)]
     ELSE pl[i]]

\* roomManager.getStartingPlayerForRoom with random index r (0-based)
getStartingPlayerForRoom(pl, r) == IF Len(pl) = 0 THEN NullId ELSE pl[r + 1].id

\* deal_cards, dealing n cards of the shuffled deck to each connected player
DealCardsWith(u, seed, r, deck, n) ==
  LET pl == dealCards(players, shuffleDeck(deck, seed), n)
      t == getStartingPlayerForRoom(pl, r)
  IN /\ Exploring
     /\ UNCHANGED <<mapVars, ruleVars, loadVars, saveResult>>
     /\ sock[u] # 0
     /\ gameStarted /\ deckShuffled
     /\ r < Len(players) \/ (r = 0 /\ Len(players) = 0)
     /\ players' = pl
     /\ turn' = t
     /\ deckShuffled' = FALSE
     /\ botTimers' = botTimers \cup BotMoveTimer(pl, t)
     /\ last' = "deal"
     /\ UNCHANGED <<seatVars, pile, currentCombination, gameStarted, winner,
                    winnerLastCards, passes, lastPlayer, round, countdownVars, sockVars,
                    botAdded, played, faults, graceTimers, detached>>

\* deal_cards with the deck and the hand size explored by Spec
DealCards(u, seed, r) == DealCardsWith(u, seed, r, Deck, HandSize)

\* ---------------------------------------------------------- play handlers
\* cards.every(card => player.hand.includes(card))
hasAllCards(hand, cards) == \A i \in DOMAIN cards : Includes(hand, cards[i])

\* play_cards without the room.turn check
PlayAcceptedAnyTurn(sid, cards) ==
  LET i == IdxOfId(players, sid)
      combination == validateCombination(cards)
  IN /\ gameStarted
     /\ i # 0
     /\ combination # NoCombo
     /\ canBeatCombination(combination, currentCombination)
     /\ hasAllCards(players[i].hand, cards)

\* the checks of play_cards before it changes anything
PlayAccepted(sid, cards) ==
  LET i == IdxOfId(players, sid)
      combination == validateCombination(cards)
  IN /\ gameStarted
     /\ i # 0
     /\ turn = sid
     /\ combination # NoCombo
     /\ canBeatCombination(combination, currentCombination)
     /\ hasAllCards(players[i].hand, cards)

\* play_cards
PlayCards(u, cards) ==
  LET sid == sock[u]
      i == IdxOfId(players, sid)
      hand == FilterOut(players[i].hand, cards)
      pl == [players EXCEPT ![i].hand = hand]
      t == NextTurn(pl, passes, sid, turn)
  IN /\ Exploring
     /\ UNCHANGED <<mapVars, ruleVars, loadVars, saveResult>>
     /\ sid # 0
     /\ IF ~PlayAccepted(sid, cards)
        THEN /\ last' = "play_rejected"
             /\ UNCHANGED <<roomVars, envVars>>
        ELSE /\ players' = pl
             /\ pile' = cards
             /\ currentCombination' = validateCombination(cards)
             /\ lastPlayer' = sid
             /\ IF Len(hand) = 0
                THEN /\ winner' = sid
                     /\ winnerLastCards' = cards
                     /\ gameStarted' = FALSE
                     /\ last' = "play_win"
                     /\ UNCHANGED <<turn, botTimers>>
                ELSE /\ turn' = t
                     /\ botTimers' = botTimers \cup BotMoveTimer(pl, t)
                     /\ last' = "play"
                     /\ UNCHANGED <<winner, winnerLastCards, gameStarted>>
             /\ UNCHANGED <<seatVars, passes, round, deckShuffled, countdownVars,
                            sockVars, botAdded, played, faults, graceTimers, detached>>

\* "start new round" of the pass handlers: the turn goes to room.lastPlayer if set
NewRound ==
  /\ round < MaxRound
  /\ currentCombination' = NoCombo
  /\ passes' = {}
  /\ pile' = <<>>
  /\ round' = round + 1
  /\ turn' = IF lastPlayer # NullId THEN lastPlayer ELSE turn

\* the bot timer of a new round
NewRoundTimer == IF lastPlayer # NullId THEN BotMoveTimer(players, lastPlayer) ELSE {}

\* pass without the room.turn check
PassAcceptedAnyTurn(sid) == gameStarted

\* the check of pass before it changes anything
PassAccepted(sid) == gameStarted /\ turn = sid

\* pass
Pass(u) ==
  LET sid == sock[u]
      ps == passes \cup {sid}
      t == NextTurn(players, ps, sid, turn)
  IN /\ Exploring
     /\ UNCHANGED <<mapVars, ruleVars, loadVars, saveResult>>
     /\ sid # 0
     /\ IF ~PassAccepted(sid)
        THEN /\ last' = "pass_rejected"
             /\ UNCHANGED <<roomVars, envVars>>
        ELSE /\ IF AllOthersPassed(players, ps)
                THEN /\ NewRound
                     /\ botTimers' = botTimers \cup NewRoundTimer
                     /\ last' = "pass_reset"
                ELSE /\ passes' = ps
                     /\ turn' = t
                     /\ botTimers' = botTimers \cup BotMoveTimer(players, t)
                     /\ last' = "pass"
                     /\ UNCHANGED <<currentCombination, pile, round>>
             /\ UNCHANGED <<players, seatVars, gameStarted, winner, winnerLastCards,
                            lastPlayer, deckShuffled, countdownVars, sockVars, botAdded,
                            played, faults, graceTimers, detached>>

\* ---------------------------------------------------- connection handlers
\* disconnect: the entry stays, marked disconnected; the countdown is cleared;
\* a grace timer is armed when the game is started and it is the sender's turn
DisconnectWhen(u, explored, results) ==
  LET sid == sock[u]
      playerIndex == IdxOfId(players, sid)
  IN /\ Exploring
     /\ UNCHANGED <<mapVars, ruleVars, loadVars>>
     /\ explored
     /\ sid # 0
     /\ sock' = [sock EXCEPT ![u] = 0]
     /\ faults' = faults + 1
     /\ IF playerIndex # 0
        THEN /\ players' = [players EXCEPT ![playerIndex].connected = FALSE]
             /\ ClearCountdown
             /\ graceTimers' = IF gameStarted /\ turn = sid
                               THEN graceTimers \cup {sid} ELSE graceTimers
             /\ saveResult' \in results
        ELSE UNCHANGED <<players, countdownVars, graceTimers, saveResult>>
     /\ last' = IF playerIndex # 0 /\ countdownInterval THEN "countdown_cleared" ELSE "other"
     /\ UNCHANGED <<seatVars, gameVars, nextSock, botAdded, played, botTimers, detached>>

\* disconnect of a started game, maxFaults times
DisconnectSave(u, maxFaults, results) ==
  DisconnectWhen(u, played /\ faults < maxFaults, results)

\* disconnect with the store left out: nothing reads what saveRoomToDB returns
DisconnectWith(u, maxFaults) == DisconnectSave(u, maxFaults, {saveResult})

\* disconnect with the number of faults explored by Spec
Disconnect(u) == DisconnectWith(u, MaxFaults)

\* a grace timer callback that forgets the synthesized pass
GraceTimerNoPass(sid) ==
  /\ Exploring
  /\ UNCHANGED <<mapVars, ruleVars, loadVars, saveResult>>
  /\ sid \in graceTimers
  /\ graceTimers' = graceTimers \ {sid}
  /\ last' = "other"
  /\ UNCHANGED <<roomVars, sockVars, botAdded, played, faults, botTimers, detached>>

\* a grace timer callback that undoes its pass when the save fails
GraceTimerRollback(sid, results) ==
  /\ Exploring
  /\ UNCHANGED <<mapVars, ruleVars, loadVars>>
  /\ sid \in graceTimers
  /\ graceTimers' = graceTimers \ {sid}
  /\ saveResult' \in results
  /\ IF saveResult' \in {"error", "thrown"}
     THEN /\ last' = "other"
          /\ UNCHANGED <<tableVars, turn>>
     ELSE LET i == IdxOfId(players, sid)
              ps == passes \cup {sid}
          IN IF i # 0 /\ ~players[i].connected /\ turn = sid
             THEN IF AllOthersPassed(players, ps)
                  THEN /\ NewRound
                       /\ last' = "grace_reset"
                  ELSE /\ passes' = ps
                       /\ turn' = NextConnected(players, sid)
                       /\ last' = "grace_pass"
                       /\ UNCHANGED <<currentCombination, pile, round>>
             ELSE /\ last' = "other"
                  /\ UNCHANGED <<tableVars, turn>>
  /\ UNCHANGED <<players, seatVars, gameStarted, winner, winnerLastCards, lastPlayer,
                 deckShuffled, countdownVars, sockVars, botAdded, played, faults,
                 botTimers, detached>>

\* the grace timer callback of the disconnect handler (auto-pass)
GraceTimerSave(sid, results) ==
  LET i == IdxOfId(players, sid)
      ps == passes \cup {sid}
  IN /\ Exploring
     /\ UNCHANGED <<mapVars, ruleVars, loadVars>>
     /\ sid \in graceTimers
     /\ graceTimers' = graceTimers \ {sid}
     /\ IF i # 0 /\ ~players[i].connected /\ turn = sid
        THEN /\ saveResult' \in results
             /\ IF AllOthersPassed(players, ps)
                THEN /\ NewRound
                     /\ last' = "grace_reset"
                ELSE /\ passes' = ps
                     /\ turn' = NextConnected(players, sid)
                     /\ last' = "grace_pass"
                     /\ UNCHANGED <<currentCombination, pile, round>>
        ELSE /\ last' = "other"
             /\ UNCHANGED <<tableVars, turn, saveResult>>
     /\ UNCHANGED <<players, seatVars, gameStarted, winner, winnerLastCards, lastPlayer,
                    deckShuffled, countdownVars, sockVars, botAdded, played, faults,
                    botTimers, detached>>

\* the grace timer callback with the store left out
GraceTimer(sid) == GraceTimerSave(sid, {saveResult})

\* ----------------------------------------------------------- bot handlers
\* add_bot: a bot takes the first empty chair
AddBot(u) ==
  LET empty == {c \in 1..NumChairs : chairs[c] = NullId}
      emptyChairIndex == CHOOSE c \in empty : \A d \in empty : c <= d
  IN /\ Exploring
     /\ UNCHANGED <<mapVars, ruleVars, loadVars, saveResult>>
     /\ sock[u] # 0
     /\ empty # {}
     /\ ~botAdded
     /\ Len(players) < MaxPlayers
     /\ players' = Append(players, [id |-> BotId, userId |-> 0, hand |-> <<>>,
                                    connected |-> TRUE, ready |-> TRUE, isBot |-> TRUE,
                                    chair |-> emptyChairIndex])
     /\ chairs' = [chairs EXCEPT ![emptyChairIndex] = BotId]
     /\ botAdded' = TRUE
     /\ last' = "other"
     /\ UNCHANGED <<viewers, gameVars, countdownVars, sockVars, played, faults, timerVars>>

\* remove_bot: the first bot of room.players is spliced out; timers keep the object
RemoveBot(u) ==
  LET bs == {i \in DOMAIN players : players[i].isBot}
      botIndex == CHOOSE i \in bs : \A j \in bs : i <= j
  IN /\ Exploring
     /\ UNCHANGED <<mapVars, ruleVars, loadVars, saveResult>>
     /\ played /\ faults < MaxFaults
     /\ sock[u] # 0
     /\ bs # {}
     /\ players' = RemoveAt(players, botIndex)
     /\ chairs' = [chairs EXCEPT ![players[botIndex].chair] = NullId]
     /\ detached' = (players[botIndex].id :> players[botIndex].hand) @@ detached
     /\ faults' = faults + 1
     /\ last' = "other"
     /\ UNCHANGED <<viewers, gameVars, countdownVars, sockVars, botAdded, played,
                    graceTimers, botTimers>>

\* ---------------------------------------------------------------- botLogic
\* bot.hand of the object a timer holds: the entry of room.players, or the
\* object that remove_bot spliced out
BotHand(id) ==
  IF IdxOfId(players, id) # 0 THEN players[IdxOfId(players, id)].hand ELSE detached[id]

\* bot.hand = h on that object
SetBotHand(id, h) ==
  IF IdxOfId(players, id) # 0
  THEN /\ players' = [players EXCEPT ![IdxOfId(players, id)].hand = h]
       /\ UNCHANGED detached
  ELSE /\ detached' = [detached EXCEPT ![id] = h]
       /\ UNCHANGED players

\* makeBotMove: a pass timer when there is no valid move, else a play timer
\* for one of the valid moves
MakeBotMove(tm) ==
  LET validMoves == getValidMoves(BotHand(tm.bot), currentCombination)
      rest == botTimers \ {tm}
  IN /\ Exploring
     /\ UNCHANGED <<mapVars, ruleVars, loadVars, saveResult>>
     /\ tm \in botTimers
     /\ tm.kind = "move"
     /\ IF validMoves = {}
        THEN botTimers' = rest \cup {[kind |-> "pass", bot |-> tm.bot, cards |-> <<>>]}
        ELSE \E chosenMove \in validMoves :
               botTimers' = rest \cup {[kind |-> "play", bot |-> tm.bot,
                                        cards |-> chosenMove]}
     /\ last' = "other"
     /\ UNCHANGED <<roomVars, sockVars, botAdded, played, faults, graceTimers, detached>>

\* handleBotPlay
HandleBotPlay(tm) ==
  LET combination == validateCombinationGL(tm.cards)
      hand == FilterOut(BotHand(tm.bot), tm.cards)
      pl == IF IdxOfId(players, tm.bot) # 0
            THEN [players EXCEPT ![IdxOfId(players, tm.bot)].hand = hand] ELSE players
      t == NextTurn(pl, passes, tm.bot, turn)
      rest == botTimers \ {tm}
  IN /\ Exploring
     /\ UNCHANGED <<mapVars, ruleVars, loadVars, saveResult>>
     /\ tm \in botTimers
     /\ tm.kind = "play"
     /\ IF combination = NoCombo \/ ~canBeatCombinationGL(combination, currentCombination)
        THEN /\ botTimers' = rest
             /\ last' = "bot_noop"
             /\ UNCHANGED <<roomVars, detached>>
        ELSE /\ SetBotHand(tm.bot, hand)
             /\ pile' = tm.cards
             /\ currentCombination' = combination
             /\ lastPlayer' = tm.bot
             /\ IF Len(hand) = 0
                THEN /\ winner' = tm.bot
                     /\ gameStarted' = FALSE
                     /\ botTimers' = rest
                     /\ last' = "bot_win"
                     /\ UNCHANGED turn
                ELSE /\ turn' = t
                     /\ botTimers' = rest \cup BotMoveTimer(pl, t)
                     /\ last' = "bot_play"
                     /\ UNCHANGED <<winner, gameStarted>>
             /\ UNCHANGED <<seatVars, winnerLastCards, passes, round, deckShuffled,
                            countdownVars>>
     /\ UNCHANGED <<sockVars, botAdded, played, faults, graceTimers>>

\* handleBotPass
HandleBotPass(tm) ==
  LET ps == passes \cup {tm.bot}
      t == NextTurn(players, ps, tm.bot, turn)
      rest == botTimers \ {tm}
  IN /\ Exploring
     /\ UNCHANGED <<mapVars, ruleVars, loadVars, saveResult>>
     /\ tm \in botTimers
     /\ tm.kind = "pass"
     /\ IF AllOthersPassed(players, ps)
        THEN /\ NewRound
             /\ botTimers' = rest \cup NewRoundTimer
             /\ last' = "bot_reset"
        ELSE /\ passes' = ps
             /\ turn' = t
             /\ botTimers' = rest \cup BotMoveTimer(players, t)
             /\ last' = "bot_pass"
             /\ UNCHANGED <<currentCombination, pile, round>>
     /\ UNCHANGED <<players, seatVars, gameStarted, winner, winnerLastCards, lastPlayer,
                    deckShuffled, countdownVars, sockVars, botAdded, played, faults,
                    graceTimers, detached>>

\* io.to(room.id).emit("game_update", ...) calls a handler makes on the path
\* that ends with the given outcome: play_cards and handleBotPlay emit at their
\* end, pass emits before the return of its reset branch and at its end, the
\* grace timer emits after its save, and the reset branch of handleBotPass
\* returns before the emit at the end of the function
gameUpdates(outcome) ==
  IF outcome \in {"play", "play_win", "pass", "pass_reset", "grace_pass", "grace_reset",
                  "bot_play", "bot_win", "bot_pass"}
  THEN 1
  ELSE 0

\* ------------------------------------------------------------- behaviour
Next ==
  \/ \E u \in Users : JoinRoom(u)
  \/ \E u \in Users : SitChair(u, 1)
  \/ \E u \in Users : StandUp(u)
  \/ \E u \in Users : ToggleReady(u)
  \/ CountdownTick
  \/ \E u \in Users : StartGame(u)
  \/ \E u \in Users : RestartGame(u)
  \/ \E u \in Users, seed \in Seeds, r \in 0..(MaxPlayers - 1) : DealCards(u, seed, r)
  \/ \E u \in Users, cards \in Plays : PlayCards(u, cards)
  \/ \E u \in Users : Pass(u)
  \/ \E u \in Users : Disconnect(u)
  \/ \E sid \in SockIds : GraceTimer(sid)
  \/ \E u \in Users : AddBot(u)
  \/ \E u \in Users : RemoveBot(u)
  \/ \E tm \in botTimers : MakeBotMove(tm)
  \/ \E tm \in botTimers : HandleBotPlay(tm)
  \/ \E tm \in botTimers : HandleBotPass(tm)

Spec == Init /\ [][Next]_vars

\* ------------------------------------------------ turns of a dealt game
\* A game of the NumUsers users, with or without a bot, started and dealt (join_room, start_game and
\* deal_cards have run, as in Spec), then played with disconnects, reconnects
\* and the grace timer.
TurnInitWhen(explored) ==
  /\ \E seed \in 0..MaxTurnSeed, withBot \in BOOLEAN :
       LET humans == [i \in 1..NumUsers |->
                        [id |-> i, userId |-> i, hand |-> <<>>, connected |-> TRUE,
                         ready |-> FALSE, isBot |-> FALSE, chair |-> 0]]
           bot == [id |-> BotId, userId |-> 0, hand |-> <<>>, connected |-> TRUE,
                   ready |-> TRUE, isBot |-> TRUE, chair |-> 1]
           joined == IF withBot THEN Append(humans, bot) ELSE humans
           pl == dealCards(joined, shuffleDeck(Deck, seed), TurnHand)
       IN \E r \in 0..(Len(pl) - 1) :
            /\ players = pl
            /\ turn = getStartingPlayerForRoom(pl, r)
            /\ botTimers = BotMoveTimer(pl, getStartingPlayerForRoom(pl, r))
            /\ botAdded = withBot
            /\ chairs = [c \in 1..NumChairs |-> IF withBot /\ c = 1 THEN BotId ELSE NullId]
  /\ sock = [u \in Users |-> u]
  /\ nextSock = NumUsers + 1
  /\ viewers = <<>>
  /\ pile = <<>>
  /\ currentCombination = NoCombo
  /\ gameStarted = TRUE
  /\ winner = NullId
  /\ winnerLastCards = <<>>
  /\ passes = {}
  /\ lastPlayer = NullId
  /\ round = 1
  /\ deckShuffled = FALSE
  /\ countdownTime = 0
  /\ countdownInterval = FALSE
  /\ liveIntervals = 0
  /\ played = explored
  /\ faults = 0
  /\ graceTimers = {}
  /\ detached = <<>>
  /\ owner = NullId
  /\ created = TRUE
  /\ NoCall
  /\ last = "deal"

TurnInit == TurnInitWhen(TRUE)

TurnNext ==
  \/ \E u \in Users, cards \in Plays : PlayCards(u, cards)
  \/ \E u \in Users : Pass(u)
  \/ \E u \in Users : DisconnectWith(u, MaxTurnFaults)
  \/ \E u \in Users : JoinRoom(u)
  \/ \E sid \in SockIds : GraceTimer(sid)
  \/ \E tm \in botTimers : MakeBotMove(tm)
  \/ \E tm \in botTimers : HandleBotPlay(tm)
  \/ \E tm \in botTimers : HandleBotPass(tm)

TurnSpec == TurnInit /\ [][TurnNext]_vars

\* a pending setTimeout callback runs once its delay has elapsed
TurnFair == TurnSpec /\ WF_vars(\E sid \in SockIds : GraceTimer(sid))

\* ------------------------------------------------ the ready countdown
\* The room before its game: users join, take and leave chairs, toggle ready
\* and disconnect while the countdown of toggle_ready runs.
CountdownNext ==
  \/ \E u \in Users : JoinRoom(u)
  \/ \E u \in Users : AddBot(u)
  \/ \E u \in Users, c \in 1..NumChairs : SitChair(u, c)
  \/ \E u \in Users : StandUpWhen(u, faults < MaxCountdownFaults)
  \/ \E u \in Users : ToggleReady(u)
  \/ \E u \in Users : DisconnectWhen(u, faults < MaxCountdownFaults, {saveResult})
  \/ CountdownTick

CountdownSpec == Init /\ [][CountdownNext]_vars

\* ------------------------------------------------- starting over
\* The dealt game of TurnSpec, played while its players toggle ready, until
\* one start_game, restart_game or countdown expiry begins the next game.
RestartNext ==
  \/ \E u \in Users, cards \in Plays : PlayCards(u, cards)
  \/ \E u \in Users : Pass(u)
  \/ \E tm \in botTimers : MakeBotMove(tm)
  \/ \E tm \in botTimers : HandleBotPlay(tm)
  \/ \E tm \in botTimers : HandleBotPass(tm)
  \/ \E u \in Users : ToggleReady(u)
  \/ \E u \in Users : StartGame(u)
  \/ \E u \in Users : RestartGame(u)
  \/ CountdownTick

RestartSpec == TurnInitWhen(FALSE) /\ [][RestartNext]_vars

\* ------------------------------------------------ the periodic cleanup
\* one run of the setInterval callback of setupSocketHandlers, CleanupMinutes
\* after the last: the room is deleted from rooms when it has no players and
\* viewers, or when room.lastActivity is more than IdleMinutes old
CleanupTick ==
  LET totalPlayers == Len(players) + Len(viewers)
      inactiveTime == now' - lastActivity
  IN /\ created
     /\ now < MaxNow
     /\ now' = now + CleanupMinutes
     /\ IF totalPlayers = 0 \/ inactiveTime > IdleMinutes
        THEN /\ created' = FALSE
             /\ last' = "evicted"
        ELSE /\ last' = "cleanup"
             /\ UNCHANGED created
     /\ UNCHANGED <<roomVars, envVars, owner, ruleVars, rooms, roomObjects, requests,
                    lastActivity, saveResult>>

\* The dealt game of TurnSpec, built by join_room at minute 0 (lastActivity:
\* Date.now()), played while the cleanup runs; no handler writes
\* room.lastActivity.
CleanupNext ==
  \/ \E u \in Users, cards \in Plays : created /\ PlayCards(u, cards)
  \/ \E u \in Users : created /\ Pass(u)
  \/ \E u \in Users : created /\ DisconnectWith(u, MaxFaults)
  \/ \E u \in Users : created /\ JoinRoom(u)
  \/ \E sid \in SockIds : created /\ GraceTimer(sid)
  \/ CleanupTick

CleanupSpec == TurnInit /\ [][CleanupNext]_vars

\* ------------------------------------------- a ring of four participants
\* A dealt game of the NumUsers users and RingAbsent further participants, in
\* any join order; the further participants were dealt their cards and have
\* disconnected since (their entries stay in room.players, their grace timers
\* are not pending), and they send no requests.
RingSize == NumUsers + RingAbsent
RingOrders == {f \in [1..RingSize -> 1..RingSize] : \A i, j \in 1..RingSize : i # j => f[i] # f[j]}
AbsentId(k) == IF k \in Users THEN k ELSE NumUsers + MaxTurnFaults + k

RingInit ==
  /\ \E seed \in 0..MaxTurnSeed, f \in RingOrders :
       LET joined == [i \in 1..RingSize |->
                        [id |-> AbsentId(f[i]), userId |-> f[i], hand |-> <<>>,
                         connected |-> TRUE, ready |-> FALSE, isBot |-> FALSE,
                         chair |-> 0]]
           pl == dealCards(joined, shuffleDeck(Deck, seed), RingHand)
       IN \E r \in 0..(RingSize - 1) :
            /\ players = [i \in 1..RingSize |->
                            [pl[i] EXCEPT !.connected = pl[i].userId \in Users]]
            /\ turn = getStartingPlayerForRoom(pl, r)
  /\ botTimers = {}
  /\ botAdded = FALSE
  /\ chairs = [c \in 1..NumChairs |-> NullId]
  /\ sock = [u \in Users |-> u]
  /\ nextSock = NumUsers + 1
  /\ viewers = <<>>
  /\ pile = <<>>
  /\ currentCombination = NoCombo
  /\ gameStarted = TRUE
  /\ winner = NullId
  /\ winnerLastCards = <<>>
  /\ passes = {}
  /\ lastPlayer = NullId
  /\ round = 1
  /\ deckShuffled = FALSE
  /\ countdownTime = 0
  /\ countdownInterval = FALSE
  /\ liveIntervals = 0
  /\ played = TRUE
  /\ faults = 0
  /\ graceTimers = {}
  /\ detached = <<>>
  /\ owner = NullId
  /\ created = TRUE
  /\ NoCall
  /\ last = "deal"

RingNext ==
  \/ \E u \in Users, cards \in Plays : PlayCards(u, cards)
  \/ \E u \in Users : Pass(u)
  \/ \E u \in Users : DisconnectWith(u, MaxTurnFaults)
  \/ \E u \in Users : JoinRoom(u)
  \/ \E sid \in SockIds : GraceTimer(sid)

RingSpec == RingInit /\ [][RingNext]_vars

\* ---------------------------------------------------- the store failing
\* The game of TurnSpec with the store: join_room, disconnect and the grace
\* timer await saveRoomToDB, which returns {success: true}, {success: false,
\* error} for an error result, and the same for a thrown exception.
SaveResults == {"ok", "error", "thrown"}

SaveNext ==
  \/ \E u \in Users, cards \in Plays : PlayCards(u, cards)
  \/ \E u \in Users : Pass(u)
  \/ \E u \in Users, r \in SaveResults : DisconnectSave(u, MaxTurnFaults, {r})
  \/ \E u \in Users, r \in SaveResults : JoinRoomSave(u, {r})
  \/ \E sid \in SockIds, r \in SaveResults : GraceTimerSave(sid, {r})
  \/ \E tm \in botTimers : MakeBotMove(tm)
  \/ \E tm \in botTimers : HandleBotPlay(tm)
  \/ \E tm \in botTimers : HandleBotPass(tm)

SaveSpec == TurnInit /\ [][SaveNext]_vars

\* ------------------------------------------- dealing at the code's scale
\* A started room of k joined players, some of them disconnected, before
\* deal_cards; the players beyond NumUsers send no requests.
FullDeck == generateDeck(FullRanks, FullSuits)

DealInit ==
  /\ \E k \in 1..MaxDealPlayers : \E conn \in SUBSET (1..k) :
       /\ players = [i \in 1..k |-> [id |-> i, userId |-> i, hand |-> <<>>,
                                     connected |-> i \in conn, ready |-> FALSE,
                                     isBot |-> FALSE, chair |-> 0]]
       /\ sock = [u \in Users |-> IF u \in conn THEN u ELSE 0]
  /\ viewers = <<>>
  /\ chairs = [c \in 1..NumChairs |-> NullId]
  /\ pile = <<>>
  /\ turn = NullId
  /\ currentCombination = NoCombo
  /\ gameStarted = TRUE
  /\ winner = NullId
  /\ winnerLastCards = <<>>
  /\ passes = {}
  /\ lastPlayer = NullId
  /\ round = 1
  /\ deckShuffled = TRUE
  /\ countdownTime = 0
  /\ countdownInterval = FALSE
  /\ liveIntervals = 0
  /\ nextSock = MaxDealPlayers + 1
  /\ botAdded = FALSE
  /\ played = TRUE
  /\ faults = 0
  /\ graceTimers = {}
  /\ botTimers = {}
  /\ detached = <<>>
  /\ owner = NullId
  /\ created = TRUE
  /\ NoCall
  /\ last = "other"

DealNext ==
  \E u \in Users, seed \in 0..MaxDealSeed, r \in 0..(MaxDealPlayers - 1) :
    DealCardsWith(u, seed, r, FullDeck, cardsPerPlayer)

DealSpec == DealInit /\ [][DealNext]_vars

\* ------------------------------------------- socketHandlers.js (one file)
\* The handlers of socketHandlers.js that seat and unseat participants and
\* that start and deal a game.  The room is created by create_room and deleted
\* by disconnect when it is empty.
\* Chair k of the code is chair k + 1 here; users are authenticated, so
\* room.owner is a user id.
gameFrame == <<gameVars, countdownVars, played, timerVars, ruleVars, loadVars, saveResult>>
idleFrame == <<countdownVars, graceTimers, detached, ruleVars, loadVars, saveResult>>

\* what is explored: one game per run, and MaxFaults seating requests once it
\* is started
LobbyFault ==
  /\ played => faults < MaxFaults
  /\ faults' = IF played THEN faults + 1 ELSE faults

LobbyInit ==
  /\ players = <<>>
  /\ viewers = <<>>
  /\ chairs = [c \in 1..NumChairs |-> NullId]
  /\ pile = <<>>
  /\ turn = NullId
  /\ currentCombination = NoCombo
  /\ gameStarted = FALSE
  /\ winner = NullId
  /\ winnerLastCards = <<>>
  /\ passes = {}
  /\ lastPlayer = NullId
  /\ round = 1
  /\ deckShuffled = FALSE
  /\ countdownTime = 0
  /\ countdownInterval = FALSE
  /\ liveIntervals = 0
  /\ sock = [u \in Users |-> 0]
  /\ nextSock = 1
  /\ botAdded = FALSE
  /\ played = FALSE
  /\ faults = 0
  /\ graceTimers = {}
  /\ botTimers = {}
  /\ detached = <<>>
  /\ owner = NullId
  /\ created = FALSE
  /\ NoCall
  /\ last = "other"

\* the socket of a request: the user's live socket, or a new connection
SocketOf(u) == IF sock[u] = 0 THEN nextSock ELSE sock[u]

Connected(u) ==
  /\ sock[u] = 0 => nextSock <= MaxLobbySocks
  /\ sock' = [sock EXCEPT ![u] = SocketOf(u)]
  /\ nextSock' = IF sock[u] = 0 THEN nextSock + 1 ELSE nextSock

\* create_room: getOrCreateRoom, then the sender is pushed with chair 0
CreateRoom(u) ==
  LET sid == SocketOf(u)
  IN /\ Connected(u)
     /\ Len(players) < MaxPlayers
     /\ created' = TRUE
     /\ owner' = IF created THEN owner ELSE u
     /\ players' = Append(players, [id |-> sid, userId |-> u, hand |-> <<>>,
                                    connected |-> TRUE, ready |-> FALSE,
                                    isBot |-> FALSE, chair |-> 1])
     /\ chairs' = [chairs EXCEPT ![1] = sid]
     /\ last' = "create_room"
     /\ UNCHANGED <<viewers, botAdded, gameFrame>>
     /\ LobbyFault

\* join_room of socketHandlers.js: the sender becomes a viewer
JoinRoomViewer(u) ==
  LET sid == SocketOf(u)
  IN /\ created
     /\ Connected(u)
     /\ Len(viewers) < MaxLobbyViewers
     /\ viewers' = IF \E i \in DOMAIN viewers : viewers[i].id = sid THEN viewers
                   ELSE Append(viewers, [id |-> sid, userId |-> u])
     /\ last' = "join_room"
     /\ UNCHANGED <<players, chairs, botAdded, mapVars, gameFrame>>
     /\ LobbyFault

\* sit_chair of socketHandlers.js
SitChairMono(u, chairIndex) ==
  LET sid == sock[u]
      vs == {i \in DOMAIN viewers : viewers[i].id = sid}
      viewerIndex == CHOOSE i \in vs : \A j \in vs : i <= j
  IN /\ created
     /\ sid # 0
     /\ chairs[chairIndex] = NullId
     /\ vs # {}
     /\ Len(players) < MaxPlayers
     /\ viewers' = RemoveAt(viewers, viewerIndex)
     /\ players' = Append(players, [id |-> sid, userId |-> viewers[viewerIndex].userId,
                                    hand |-> <<>>, connected |-> TRUE, ready |-> FALSE,
                                    isBot |-> FALSE, chair |-> chairIndex])
     /\ chairs' = [chairs EXCEPT ![chairIndex] = sid]
     /\ last' = "sit_chair"
     /\ UNCHANGED <<sockVars, botAdded, mapVars, gameFrame>>
     /\ LobbyFault

\* stand_up of socketHandlers.js
StandUpMono(u) ==
  LET sid == sock[u]
      playerIndex == IdxOfId(players, sid)
  IN /\ created
     /\ sid # 0
     /\ playerIndex # 0
     /\ Len(viewers) < MaxLobbyViewers
     /\ players' = RemoveAt(players, playerIndex)
     /\ chairs' = [chairs EXCEPT ![players[playerIndex].chair] = NullId]
     /\ viewers' = Append(viewers, [id |-> sid, userId |-> players[playerIndex].userId])
     /\ last' = "stand_up"
     /\ UNCHANGED <<sockVars, botAdded, mapVars, gameFrame>>
     /\ LobbyFault

\* the owner check of add_bot and remove_bot
isOwner(sid) ==
  \E i \in DOMAIN players : players[i].id = sid /\ players[i].userId = owner

\* add_bot of socketHandlers.js
AddBotMono(u) ==
  LET empty == {c \in 1..NumChairs : chairs[c] = NullId}
      emptyChairIndex == CHOOSE c \in empty : \A d \in empty : c <= d
  IN /\ created
     /\ sock[u] # 0
     /\ isOwner(sock[u])
     /\ empty # {}
     /\ ~botAdded
     /\ Len(players) < MaxPlayers
     /\ players' = Append(players, [id |-> BotId, userId |-> 0, hand |-> <<>>,
                                    connected |-> TRUE, ready |-> TRUE, isBot |-> TRUE,
                                    chair |-> emptyChairIndex])
     /\ chairs' = [chairs EXCEPT ![emptyChairIndex] = BotId]
     /\ botAdded' = TRUE
     /\ last' = "add_bot"
     /\ UNCHANGED <<viewers, sockVars, mapVars, gameFrame>>
     /\ LobbyFault

\* remove_bot of socketHandlers.js
RemoveBotMono(u) ==
  LET bs == {i \in DOMAIN players : players[i].isBot}
      botIndex == CHOOSE i \in bs : \A j \in bs : i <= j
  IN /\ created
     /\ sock[u] # 0
     /\ isOwner(sock[u])
     /\ bs # {}
     /\ players' = RemoveAt(players, botIndex)
     /\ chairs' = [chairs EXCEPT ![players[botIndex].chair] = NullId]
     /\ botAdded' = FALSE
     /\ last' = "remove_bot"
     /\ UNCHANGED <<viewers, sockVars, mapVars, gameFrame>>
     /\ LobbyFault

\* disconnect of socketHandlers.js: the sender is removed from players and
\* viewers; an empty room is deleted
DisconnectMono(u) ==
  LET sid == sock[u]
      playerIndex == IdxOfId(players, sid)
      pl == IF playerIndex # 0 THEN RemoveAt(players, playerIndex) ELSE players
      ch == IF playerIndex # 0
            THEN [chairs EXCEPT ![players[playerIndex].chair] = NullId] ELSE chairs
      vw == SelectSeq(viewers, LAMBDA v : v.id # sid)
  IN /\ sid # 0
     /\ sock' = [sock EXCEPT ![u] = 0]
     /\ IF created /\ Len(pl) + Len(vw) = 0
        THEN /\ created' = FALSE
             /\ owner' = NullId
             /\ players' = <<>>
             /\ viewers' = <<>>
             /\ chairs' = [c \in 1..NumChairs |-> NullId]
             /\ botAdded' = FALSE
             /\ gameStarted' = FALSE
             /\ deckShuffled' = FALSE
             /\ turn' = NullId
             /\ botTimers' = {}
        ELSE /\ players' = pl
             /\ viewers' = vw
             /\ chairs' = ch
             /\ UNCHANGED <<mapVars, botAdded, gameStarted, deckShuffled, turn, botTimers>>
     /\ last' = "disconnect"
     /\ UNCHANGED <<nextSock, played, pile, currentCombination, winner, winnerLastCards, passes,
                    lastPlayer, round, idleFrame>>
     /\ LobbyFault

\* the owner check of start_game
isOwnerOrId(sid) ==
  \E i \in DOMAIN players :
    players[i].id = sid /\ (players[i].userId = owner \/ players[i].id = owner)

\* start_game of socketHandlers.js: the owner starts once two participants are
\* seated and the others are ready
StartGameMono(u) ==
  LET sid == sock[u]
      seatedPlayers == {i \in DOMAIN players : players[i].chair # 0}
  IN /\ created
     /\ sid # 0
     /\ isOwnerOrId(sid)
     /\ ~played
     /\ Cardinality(seatedPlayers) >= 2
     /\ \A i \in seatedPlayers : players[i].id # sid => players[i].ready
     /\ ResetGame
     /\ last' = "start_game"
     /\ UNCHANGED <<seatVars, winnerLastCards, sockVars, botAdded, mapVars, botTimers,
                    faults, idleFrame>>

\* deal_cards of socketHandlers.js
DealCardsMono(u, seed, r) ==
  LET pl == dealCards(players, shuffleDeck(Deck, seed), HandSize)
      t == getStartingPlayerForRoom(pl, r)
  IN /\ created
     /\ sock[u] # 0
     /\ gameStarted /\ deckShuffled
     /\ r < Len(players) \/ (r = 0 /\ Len(players) = 0)
     /\ players' = pl
     /\ turn' = t
     /\ deckShuffled' = FALSE
     /\ botTimers' = botTimers \cup BotMoveTimer(pl, t)
     /\ last' = "deal_cards"
     /\ UNCHANGED <<seatVars, pile, currentCombination, gameStarted, winner,
                    winnerLastCards, passes, lastPlayer, round, sockVars, botAdded,
                    played, mapVars, faults, idleFrame>>

LobbyNext ==
  \/ \E u \in Users : CreateRoom(u)
  \/ \E u \in Users : JoinRoomViewer(u)
  \/ \E u \in Users, c \in 1..NumChairs : SitChairMono(u, c)
  \/ \E u \in Users : StandUpMono(u)
  \/ \E u \in Users : AddBotMono(u)
  \/ \E u \in Users : RemoveBotMono(u)
  \/ \E u \in Users : DisconnectMono(u)
  \/ \E u \in Users : StartGameMono(u)
  \/ \E u \in Users, seed \in Seeds, r \in 0..(MaxPlayers - 1) : DealCardsMono(u, seed, r)

LobbySpec == LobbyInit /\ [][LobbyNext]_vars

\* ------------------------------------------------- the two rule engines
\* cardUtils.js (play_cards) and gameLogic.js (botLogic.js) called on the same
\* arguments: a card set of the top RuleRanks ranks and a combination on the
\* table made of other cards.
RuleCards ==
  {r * 10 + sv : r \in (FullRanks - RuleRanks + 1)..FullRanks, sv \in 1..FullSuits}

\* card sets of at most n cards, as arrays in sorted order
RuleSeqs(n) ==
  {c \in UNION {[1..k -> RuleCards] : k \in 0..n} :
     \A i \in DOMAIN c : i = 1 \/ c[i - 1] < c[i]}

\* room.currentCombination: null, or what play_cards stored for an accepted play
RuleCombos == {validateCombination(c) : c \in RuleSeqs(MaxRuleCombo)}

RulesInit ==
  /\ callCards \in RuleSeqs(MaxRuleCards)
  /\ callCombo \in RuleCombos
  /\ Range(callCards) \cap Range(callCombo.cards) = {}
  /\ verdict = NoVerdict
  /\ saveResult = "none"
  /\ NoLoads
  /\ players = <<>>
  /\ viewers = <<>>
  /\ chairs = [c \in 1..NumChairs |-> NullId]
  /\ pile = <<>>
  /\ turn = NullId
  /\ currentCombination = NoCombo
  /\ gameStarted = FALSE
  /\ winner = NullId
  /\ winnerLastCards = <<>>
  /\ passes = {}
  /\ lastPlayer = NullId
  /\ round = 1
  /\ deckShuffled = FALSE
  /\ countdownTime = 0
  /\ countdownInterval = FALSE
  /\ liveIntervals = 0
  /\ sock = [u \in Users |-> 0]
  /\ nextSock = 1
  /\ botAdded = FALSE
  /\ played = FALSE
  /\ faults = 0
  /\ graceTimers = {}
  /\ botTimers = {}
  /\ detached = <<>>
  /\ owner = NullId
  /\ created = TRUE
  /\ last = "other"

ruleFrame == <<roomVars, envVars, mapVars, callCards, callCombo, loadVars, saveResult, last>>

\* the checks of play_cards on the submitted cards: validateCombination, then
\* canBeatCombination, both of cardUtils.js
PlayCardsRules ==
  LET combination == validateCombination(callCards)
  IN /\ ~verdict.cu.done
     /\ verdict' = [verdict EXCEPT !.cu =
                      [done |-> TRUE, combo |-> combination,
                       accepted |-> /\ combination # NoCombo
                                    /\ canBeatCombination(combination, callCombo)]]
     /\ UNCHANGED ruleFrame

\* the checks of handleBotPlay on the cards: validateCombination, then
\* canBeatCombination, both of gameLogic.js
HandleBotPlayRules ==
  LET combination == validateCombinationGL(callCards)
  IN /\ ~verdict.gl.done
     /\ verdict' = [verdict EXCEPT !.gl =
                      [done |-> TRUE, combo |-> combination,
                       accepted |-> /\ combination # NoCombo
                                    /\ canBeatCombinationGL(combination, callCombo)]]
     /\ UNCHANGED ruleFrame

\* makeBotMove on the hand callCards: pass with no valid move, else a random one
MakeBotMoveRules ==
  LET validMoves == getValidMoves(callCards, callCombo)
  IN /\ ~verdict.bot.done
     /\ IF validMoves = {}
        THEN verdict' = [verdict EXCEPT !.bot = [done |-> TRUE, pass |-> TRUE, move |-> <<>>]]
        ELSE \E chosenMove \in validMoves :
               verdict' = [verdict EXCEPT !.bot =
                             [done |-> TRUE, pass |-> FALSE, move |-> chosenMove]]
     /\ UNCHANGED ruleFrame

RulesNext ==
  \/ PlayCardsRules
  \/ HandleBotPlayRules
  \/ MakeBotMoveRules

RulesSpec == RulesInit /\ [][RulesNext]_vars

\* ------------------------------------------- classification of card arrays
\* validateCombination of cardUtils.js and of gameLogic.js called on arrays of
\* distinct cards, in any order, of the top ClassRanks ranks.
\* the room of RulesInit, with no rule function called on it
NoRoom ==
  /\ saveResult = "none"
  /\ NoLoads
  /\ players = <<>>
  /\ viewers = <<>>
  /\ chairs = [c \in 1..NumChairs |-> NullId]
  /\ pile = <<>>
  /\ turn = NullId
  /\ currentCombination = NoCombo
  /\ gameStarted = FALSE
  /\ winner = NullId
  /\ winnerLastCards = <<>>
  /\ passes = {}
  /\ lastPlayer = NullId
  /\ round = 1
  /\ deckShuffled = FALSE
  /\ countdownTime = 0
  /\ countdownInterval = FALSE
  /\ liveIntervals = 0
  /\ sock = [u \in Users |-> 0]
  /\ nextSock = 1
  /\ botAdded = FALSE
  /\ played = FALSE
  /\ faults = 0
  /\ graceTimers = {}
  /\ botTimers = {}
  /\ detached = <<>>
  /\ owner = NullId
  /\ created = TRUE
  /\ last = "other"

\* ------------------------------------------------- the room registry
\* join_room requests of MaxRequests users for one room id that is in the
\* database and not in memory; each step runs from one await to the next.
loadFrame == <<roomVars, envVars, mapVars, ruleVars, clockVars, saveResult, last>>

\* join_room is received: await loadRoomFromDB finds the database row
JoinReceived(r) ==
  /\ requests[r].pc = "idle"
  /\ requests' = [requests EXCEPT ![r].pc = "getRoom"]
  /\ UNCHANGED <<rooms, roomObjects, loadFrame>>

\* getRoom: the cached object, else await loadRoomFromDB
GetRoomCache(r) ==
  /\ requests[r].pc = "getRoom"
  /\ requests' = IF rooms # 0
                 THEN [requests EXCEPT ![r] = [pc |-> "push", room |-> rooms]]
                 ELSE [requests EXCEPT ![r].pc = "loading"]
  /\ UNCHANGED <<rooms, roomObjects, loadFrame>>

\* getRoom after its await: a new object is registered with rooms.set, or null
\* is returned when the load has failed
GetRoomLoaded(r, found) ==
  /\ requests[r].pc = "loading"
  /\ IF found
     THEN /\ roomObjects' = Append(roomObjects, <<>>)
          /\ rooms' = Len(roomObjects) + 1
          /\ requests' = [requests EXCEPT ![r] = [pc |-> "push", room |-> Len(roomObjects) + 1]]
     ELSE /\ requests' = [requests EXCEPT ![r].pc = "create"]
          /\ UNCHANGED <<rooms, roomObjects>>
  /\ UNCHANGED loadFrame

\* join_room with no room from getRoom: it builds the object itself and
\* registers it with rooms.set
JoinCreatesRoom(r) ==
  /\ requests[r].pc = "create"
  /\ roomObjects' = Append(roomObjects, <<>>)
  /\ rooms' = Len(roomObjects) + 1
  /\ requests' = [requests EXCEPT ![r] = [pc |-> "push", room |-> Len(roomObjects) + 1]]
  /\ UNCHANGED loadFrame

\* join_room with its room: the joiner is pushed to room.players unless an
\* entry of the user is there, and the handler awaits saveRoomToDB
JoinPushesPlayer(r) ==
  LET room == requests[r].room
  IN /\ requests[r].pc = "push"
     /\ roomObjects' = IF \E i \in DOMAIN roomObjects[room] : roomObjects[room][i] = r
                       THEN roomObjects
                       ELSE [roomObjects EXCEPT ![room] = Append(roomObjects[room], r)]
     /\ requests' = [requests EXCEPT ![r].pc = "done"]
     /\ UNCHANGED <<rooms, loadFrame>>

RegistryInit ==
  /\ callCards = <<>>
  /\ callCombo = NoCombo
  /\ verdict = NoVerdict
  /\ NoRoom

RegistryNext ==
  \/ \E r \in 1..MaxRequests : JoinReceived(r)
  \/ \E r \in 1..MaxRequests : GetRoomCache(r)
  \/ \E r \in 1..MaxRequests, found \in BOOLEAN : GetRoomLoaded(r, found)
  \/ \E r \in 1..MaxRequests : JoinCreatesRoom(r)
  \/ \E r \in 1..MaxRequests : JoinPushesPlayer(r)

RegistrySpec == RegistryInit /\ [][RegistryNext]_vars

ClassCards ==
  {r * 10 + sv : r \in (FullRanks - ClassRanks + 1)..FullRanks, sv \in 1..FullSuits}

ClassSeqs ==
  {c \in UNION {[1..k -> ClassCards] : k \in 0..MaxClassCards} :
     \A i, j \in DOMAIN c : i # j => c[i] # c[j]}

ClassifyInit ==
  /\ callCards \in ClassSeqs
  /\ callCombo = NoCombo
  /\ verdict = NoVerdict
  /\ NoRoom

ClassifyNext ==
  \/ PlayCardsRules
  \/ HandleBotPlayRules

ClassifySpec == ClassifyInit /\ [][ClassifyNext]_vars

\* ------------------------------------------------ beating a combination
\* The checks of play_cards on a card set against a combination on the table,
\* with cards of the top BeatRanks ranks: straights of 3 and 4 cards, a 2.
BeatCards ==
  {r * 10 + sv : r \in (FullRanks - BeatRanks + 1)..FullRanks, sv \in 1..BeatSuits}

BeatSeqs(n) ==
  {c \in UNION {[1..k -> BeatCards] : k \in 0..n} :
     \A i \in DOMAIN c : i = 1 \/ c[i - 1] < c[i]}

BeatInit ==
  /\ callCards \in BeatSeqs(MaxBeatCards)
  /\ callCombo \in {validateCombination(c) : c \in BeatSeqs(MaxBeatCombo)}
  /\ verdict = NoVerdict
  /\ NoRoom

BeatNext == PlayCardsRules

BeatSpec == BeatInit /\ [][BeatNext]_vars

\* ------------------------------------------------------------ properties
\* The conditions under which a play_cards request may take effect.
C1_Legal(sid, cards) ==
  /\ gameStarted
  /\ \E i \in DOMAIN players : players[i].id = sid
  /\ turn = sid
  /\ validateCombination(cards) # NoCombo
  /\ canBeatCombination(validateCombination(cards), currentCombination)
  /\ \A k \in DOMAIN cards :
       \E i \in DOMAIN players :
         players[i].id = sid /\ cards[k] \in Range(players[i].hand)

C1_Room == <<players, pile, currentCombination, turn, passes, lastPlayer, round, winner,
             gameStarted>>

\* C1: a play_cards request changes no room state (hands, pile, current
\* combination, turn, passed-set, last-effective-player, round, winner, started
\* flag) unless the game is started, the sender is a participant and the current
\* actor, the cards are a valid combination that beats the current one, and the
\* sender's hand contains every submitted card.
C1_PlayChangesOnlyWhenLegal ==
  [][(last' \in {"play_rejected", "play", "play_win"} /\ C1_Room' # C1_Room)
       => \E u \in Users, cards \in Plays :
            /\ sock[u] # 0
            /\ C1_Legal(sock[u], cards)
            /\ pile' = cards
            /\ lastPlayer' = sock[u]]_vars

\* a play_cards request was refused in a started game while another request
\* would have been accepted
C1_Witness ==
  /\ last = "play_rejected"
  /\ \E u \in Users, cards \in Plays : sock[u] # 0 /\ C1_Legal(sock[u], cards)

\* C2: a pass request changes no room state when the game is not started or the
\* sender is not the current actor; only the current actor of a started game is
\* added to the passed-set.
C2_PassChangesOnlyForActor ==
  [][(last' \in {"pass_rejected", "pass", "pass_reset"} /\ C1_Room' # C1_Room)
       => /\ gameStarted
          /\ \E u \in Users : sock[u] # 0 /\ turn = sock[u]
          /\ passes' \subseteq passes \cup {turn}]_vars

\* a pass request was refused in a started game
C2_Witness == last = "pass_rejected" /\ gameStarted /\ turn # NullId

\* C3: after an accepted play of cards C by actor P, P's hand is its previous
\* hand minus the cards of C, the pile is C, the current combination is the
\* classification of C, last-effective-player is P, and the passed-set, the round
\* counter and every other participant's hand are unchanged.
C3_AcceptedPlayFrame ==
  [][last' \in {"play", "play_win"}
       => \E i \in DOMAIN players :
            /\ players[i].id = turn
            /\ DOMAIN players' = DOMAIN players
            /\ Range(pile') \subseteq Range(players[i].hand)
            /\ Range(players'[i].hand) = Range(players[i].hand) \ Range(pile')
            /\ Len(players'[i].hand) = Cardinality(Range(players'[i].hand))
            /\ currentCombination'.type = validateCombination(pile').type
            /\ Range(currentCombination'.cards) = Range(pile')
            /\ lastPlayer' = players[i].id
            /\ passes' = passes
            /\ round' = round
            /\ \A j \in DOMAIN players : j # i => players'[j].hand = players[j].hand]_vars

\* an accepted play of a pair that left cards in the actor's hand
C3_Witness == last = "play" /\ Len(pile) = 2 /\ currentCombination.type = "pair"

\* C4: an accepted play that empties the actor's hand ends the game, for a human
\* play and for a bot play alike: the game is no longer started, the winner is
\* the actor, and the winning cards are recorded as the cards of that play.
C4_WinEndsGame ==
  last \in {"play_win", "bot_win"}
    => /\ ~gameStarted
       /\ winner = lastPlayer
       /\ winnerLastCards = pile

\* C5: an accepted pass that makes the passed participants with cards equal to
\* the participants with cards minus one resets the round in that step: pile and
\* combination cleared, passed-set emptied, round + 1, and the turn goes to the
\* last participant who played, never to the participant who just passed.
C5_RoundReset ==
  [][(last' \in {"pass", "pass_reset"}
        /\ Cardinality(passedPlayers(players, passes \cup {turn}))
             = Cardinality(activePlayers(players)) - 1)
       => /\ pile' = <<>>
          /\ currentCombination' = NoCombo
          /\ passes' = {}
          /\ round' = round + 1
          /\ turn' = lastPlayer
          /\ turn' # turn]_vars

\* the first seat forward of seat i that is active and has not passed
C6_Expected(pl, ps, i, t) ==
  LET n == Len(pl)
      seat(d) == ((i - 1 + d) % n) + 1
      ok == {d \in 1..(n - 1) : /\ pl[seat(d)].connected
                                /\ Len(pl[seat(d)].hand) > 0
                                /\ pl[seat(d)].id \notin ps}
  IN IF ok = {} THEN t
     ELSE pl[seat(CHOOSE d \in ok : \A e \in ok : d <= e)].id

\* C6: after an accepted play that does not win, or an accepted pass that does
\* not reset the round, by the participant at seat i, the turn goes to the first
\* seat forward of i (cyclically) holding a connected participant with cards who
\* has not passed; it is unchanged when there is none.
C6_TurnAdvance ==
  [][(last' \in {"play", "pass"} /\ IdxOfId(players, turn) # 0)
       => turn' = C6_Expected(players', passes', IdxOfId(players, turn), turn)]_vars

\* C7: while the game is started and cards are dealt, room.turn identifies
\* exactly one participant of the player list.  Cards are dealt when some
\* participant holds cards.
C7_TurnIsParticipant ==
  (gameStarted /\ ~deckShuffled /\ activePlayers(players) # {})
    => Cardinality({i \in DOMAIN players : players[i].id = turn}) = 1

\* C8: in a started game the participants with cards who have passed stay below
\* (participants with cards - 1): the bound is never reached without the round
\* being reset in the same step.  Stated for rooms of two or more participants
\* with cards, each with its own id.
C8_PassedBelowBound ==
  (/\ gameStarted /\ ~deckShuffled
   /\ Cardinality(activePlayers(players)) >= 2
   /\ \A i, j \in DOMAIN players : players[i].id = players[j].id => i = j)
    => Cardinality(passedPlayers(players, passes))
         < Cardinality(activePlayers(players)) - 1

\* C9: no card is in the hands of two participants and no hand holds a card
\* twice.
C9_CardsInOneHand ==
  \A i, j \in DOMAIN players :
    \A a \in DOMAIN players[i].hand, b \in DOMAIN players[j].hand :
      (i # j \/ a # b) => players[i].hand[a] # players[j].hand[b]

\* two participants hold cards after an accepted play
C9_Witness ==
  /\ last = "play"
  /\ Cardinality({i \in DOMAIN players : Len(players[i].hand) > 0}) >= 2

\* C10: deal_cards gives each of the k connected participants exactly 13 cards,
\* pairwise distinct cards of one 52-card deck, for every k a room can hold.
C10_DealThirteen ==
  last = "deal"
    => /\ \A i \in DOMAIN players :
            players[i].connected => Len(players[i].hand) = cardsPerPlayer
       /\ \A i, j \in DOMAIN players :
            \A a \in DOMAIN players[i].hand, b \in DOMAIN players[j].hand :
              /\ players[i].hand[a] \in Range(FullDeck)
              /\ (i # j \/ a # b) => players[i].hand[a] # players[j].hand[b]

\* C11: no two participants of a room are bound to the same chair index.
C11_ChairsUnique ==
  \A i, j \in DOMAIN players :
    (i # j /\ players[i].chair # 0) => players[i].chair # players[j].chair

\* the disconnected actor whose grace timer is pending: no reconnection and no
\* move since the disconnect
C12_Pending(sid) ==
  /\ sid \in graceTimers
  /\ \E i \in DOMAIN players : players[i].id = sid /\ ~players[i].connected
  /\ turn = sid

\* C12: a disconnected current actor whose grace timer elapses with no
\* reconnection and no move gets exactly one synthesized pass/advance: the
\* callback runs, applies the pass (sid joins the passed-set, or the round
\* resets), and its timer is gone, so nothing can repeat it; a synthesized pass
\* happens only by consuming such a timer.
C12_GraceOnce ==
  /\ [][/\ \A sid \in SockIds :
             (C12_Pending(sid) /\ sid \notin graceTimers')
               => /\ last' \in {"grace_pass", "grace_reset"}
                  /\ passes' = passes \cup {sid} \/ (passes' = {} /\ round' = round + 1)
        /\ (last' \in {"grace_pass", "grace_reset"} /\ roomVars' # roomVars)
             => \E sid \in SockIds : C12_Pending(sid) /\ sid \notin graceTimers'
        /\ \A sid \in SockIds :
             (sid \notin graceTimers /\ sid \in graceTimers')
               => /\ gameStarted /\ turn = sid
                  /\ \E u \in Users : sock[u] = sid /\ sock'[u] = 0]_vars
  /\ \A sid \in SockIds :
       C12_Pending(sid) ~> (sid \notin graceTimers \/ winner # NullId \/ round = MaxRound)

\* a synthesized pass has advanced the turn of a disconnected actor
C12_Witness ==
  /\ last = "grace_pass"
  /\ graceTimers = {}
  /\ \E i \in DOMAIN players : ~players[i].connected /\ players[i].id \in passes

\* C13: a disconnect of a participant while the game is started leaves them in
\* the player list, at the same position, with the same hand and the same
\* chair, and with connected false (checked for a participant holding cards in
\* a room whose participants have distinct ids).
C13_DisconnectKeepsParticipant ==
  [][\A u \in Users :
       (/\ gameStarted /\ sock[u] # 0 /\ sock'[u] = 0
        /\ \A i, j \in DOMAIN players : i # j => players[i].id # players[j].id
        /\ \E i \in DOMAIN players : players[i].id = sock[u] /\ Len(players[i].hand) > 0)
         => LET i == IdxOfId(players, sock[u])
            IN /\ Len(players') = Len(players)
               /\ players'[i] = [players[i] EXCEPT !.connected = FALSE]
               /\ \A j \in DOMAIN players : j # i => players'[j] = players[j]]_vars

\* C14: whenever every participant of a started game is disconnected, the game
\* is eventually aborted: not started, pile, combination, turn, passed-set and
\* last player cleared, every hand empty and every ready flag false (checked
\* from the states with no timer pending, where only a new request can act).
C14_AllDisconnectedAborts ==
  (/\ gameStarted
   /\ players # <<>>
   /\ \A i \in DOMAIN players : ~players[i].connected
   /\ graceTimers = {} /\ botTimers = {})
    ~> (/\ ~gameStarted
        /\ pile = <<>>
        /\ currentCombination = NoCombo
        /\ turn = NullId
        /\ passes = {}
        /\ lastPlayer = NullId
        /\ \A i \in DOMAIN players : players[i].hand = <<>> /\ ~players[i].ready)

\* C15: a join_room of a user who already has a participant entry sets that
\* entry's connected flag, rebinds its id to the new socket, adds no entry, and
\* leaves its hand, chair and ready flag (and every other entry) unchanged.
C15_ReconnectFrame ==
  [][\A u \in Users :
       (sock[u] = 0 /\ sock'[u] # 0 /\ \E i \in DOMAIN players : players[i].userId = u)
         => LET ks == {i \in DOMAIN players : players[i].userId = u}
                k == CHOOSE i \in ks : \A j \in ks : i <= j
            IN /\ Len(players') = Len(players)
               /\ players'[k].connected
               /\ players'[k].id = sock'[u]
               /\ players'[k].userId = u
               /\ players'[k].hand = players[k].hand
               /\ players'[k].chair = players[k].chair
               /\ players'[k].ready = players[k].ready
               /\ \A j \in DOMAIN players : j # k => players'[j] = players[j]]_vars

\* a participant holding cards is back under a socket id of a reconnection
C15_Witness ==
  \E i \in DOMAIN players :
    /\ players[i].userId # 0
    /\ players[i].id > NumUsers
    /\ players[i].id = sock[players[i].userId]
    /\ players[i].connected
    /\ Len(players[i].hand) > 0

\* C16: when a participant of a started game reconnects under a new socket id,
\* the turn state still denotes them: if they held the turn they hold it
\* afterwards, if they were in the passed-set they still are, and if they were
\* the last player they still are.
C16_TurnFollowsParticipant ==
  [][\A u \in Users : \A i \in DOMAIN players :
       (/\ gameStarted
        /\ sock[u] = 0 /\ sock'[u] # 0
        /\ players[i].userId = u
        /\ Len(players[i].hand) > 0)
         => /\ turn = players[i].id => turn' = sock'[u]
            /\ players[i].id \in passes => sock'[u] \in passes'
            /\ lastPlayer = players[i].id => lastPlayer' = sock'[u]]_vars

\* C17: for every card set and every current combination, gameLogic.js and
\* cardUtils.js classify the cards alike and give the same verdict, so the move
\* is accepted for a bot iff it is accepted for a human.
C17_SameRules ==
  (verdict.cu.done /\ verdict.gl.done)
    => /\ verdict.gl.combo = verdict.cu.combo
       /\ verdict.gl.accepted = verdict.cu.accepted

\* a subset of the hand that gameLogic.js classifies as valid and that its
\* canBeatCombination accepts against the current combination
C18_Legal(hand, current) ==
  {c \in UNION {generateCombinations(hand, k) : k \in 1..Len(hand)} :
     /\ validateCombinationGL(c) # NoCombo
     /\ canBeatCombinationGL(validateCombinationGL(c), current)}

\* C18: makeBotMove passes only when no subset of the hand is a legal move
\* against the current combination, and otherwise plays a legal subset.
C18_PassOnlyWithoutMove ==
  verdict.bot.done
    => IF verdict.bot.pass THEN C18_Legal(callCards, callCombo) = {}
       ELSE verdict.bot.move \in C18_Legal(callCards, callCombo)

\* C19: start_game and restart_game start a game only when at least 2
\* connected participants are present and every connected participant is ready.
C19_StartNeedsQuorum ==
  [][last' \in {"start_game", "restart_game"}
       => /\ Cardinality({i \in DOMAIN players : players[i].connected}) >= 2
          /\ \A i \in DOMAIN players : players[i].connected => players[i].ready]_vars

\* C20: a refused start_game or restart_game leaves the room unchanged and
\* sends an error notification to the requester.
C20_RefusalNotifies ==
  [][last' \in {"start_refused", "restart_error"}
       => /\ roomVars' = roomVars
          /\ last' \in ErrorOutcomes]_vars

\* the ranks of the cards are consecutive, each once, and none is a 2
C21_Consecutive(cards) ==
  LET ranks == {rankValue(cards[i]) : i \in DOMAIN cards}
  IN /\ Len(cards) >= 3
     /\ Cardinality(ranks) = Len(cards)
     /\ \A r \in ranks : r # 13
     /\ \E lo \in ranks : ranks = lo..(lo + Len(cards) - 1)

\* C21: validateCombination (cardUtils.js and gameLogic.js) returns a straight
\* exactly for 3 or more cards of consecutive ranks, each once, without a 2;
\* its length is the card count and its strength the (rank, suit) of the
\* highest member; no straight contains a 2.
C21_StraightExactly ==
  \A res \in {verdict.cu, verdict.gl} :
    res.done =>
      /\ res.combo.type = "straight" <=> C21_Consecutive(callCards)
      /\ res.combo.type = "straight" =>
           /\ res.combo.length = Len(callCards)
           /\ \E i \in DOMAIN callCards :
                /\ \A j \in DOMAIN callCards : rankValue(callCards[j]) <= rankValue(callCards[i])
                /\ res.combo.rank = rankValue(callCards[i]) * 10 + suitValue(callCards[i])
           /\ \A i \in DOMAIN res.combo.cards : rankValue(res.combo.cards[i]) # 13

\* an unsorted array has been classified as a straight by both modules
C21_Witness ==
  /\ verdict.cu.done /\ verdict.cu.combo.type = "straight"
  /\ verdict.gl.done /\ verdict.gl.combo.type = "straight"
  /\ callCards[1] > callCards[2]

\* the (rank, suit) key of cards of one rank: their rank and their highest suit
C22_Key(cards) ==
  <<rankValue(cards[1]),
    CHOOSE sv \in 1..FullSuits :
      /\ \E i \in DOMAIN cards : suitValue(cards[i]) = sv
      /\ \A i \in DOMAIN cards : suitValue(cards[i]) <= sv>>

C22_LexGreater(a, b) == a[1] > b[1] \/ (a[1] = b[1] /\ a[2] > b[2])

\* C22: cardUtils.validateCombination returns single for one card, pair, triple
\* and quad for two, three and four cards of one rank, and null for two cards
\* of different ranks; the strength is rank*10 + highest suit, and it orders
\* two combinations of one type as the lexicographic order on (rank, suit).
C22_SmallCombinations ==
  verdict.cu.done =>
    LET c == verdict.cu.combo
        n == Len(callCards)
        same == \A i, j \in DOMAIN callCards : rankValue(callCards[i]) = rankValue(callCards[j])
    IN /\ n = 1 => c.type = "single"
       /\ (n = 2 /\ same) => c.type = "pair"
       /\ (n = 2 /\ ~same) => c = NoCombo
       /\ (n = 3 /\ same) => c.type = "triple"
       /\ (n = 4 /\ same) => c.type = "quad"
       /\ (n \in 1..4 /\ same) =>
            /\ c.rank = C22_Key(callCards)[1] * 10 + C22_Key(callCards)[2]
            /\ c.length = n
       /\ (c # NoCombo /\ c.type = callCombo.type) =>
            (c.rank > callCombo.rank
               <=> C22_LexGreater(C22_Key(callCards), C22_Key(callCombo.cards)))

\* a pair has been classified while a weaker pair of the same rank is on the table
C22_Witness ==
  /\ verdict.cu.done
  /\ verdict.cu.combo.type = "pair" /\ callCombo.type = "pair"
  /\ rankValue(callCards[1]) = rankValue(callCombo.cards[1])
  /\ verdict.cu.combo.rank > callCombo.rank

\* C23: cardUtils.canBeatCombination accepts every valid combination when
\* there is no current combination; against a current combination that is not
\* a single 2 it accepts only a combination of the same type, of equal length
\* for straights, and of strictly greater strength: nothing beats itself or an
\* equal strength, and a triple never beats a pair.
C23_CanBeat ==
  (verdict.cu.done /\ verdict.cu.combo # NoCombo) =>
    LET new == verdict.cu.combo
        isTwo == callCombo.type = "single" /\ rankValue(callCombo.cards[1]) = 13
    IN /\ callCombo = NoCombo => verdict.cu.accepted
       /\ (callCombo # NoCombo /\ ~isTwo /\ verdict.cu.accepted) =>
            /\ new.type = callCombo.type
            /\ new.type = "straight" => new.length = callCombo.length
            /\ new.rank > callCombo.rank
       /\ (callCombo # NoCombo /\ new.rank = callCombo.rank) => ~verdict.cu.accepted
       /\ (new.type = "triple" /\ callCombo.type = "pair") => ~verdict.cu.accepted

\* a straight has been accepted on a weaker straight
C23_Witness ==
  /\ verdict.cu.done /\ verdict.cu.accepted
  /\ verdict.cu.combo.type = "straight" /\ callCombo.type = "straight"

\* four cards of one rank, or a run of 3 or 4 pairs of consecutive ranks
C24_Bomb(cards) ==
  LET ranks == {rankValue(cards[i]) : i \in DOMAIN cards}
      count(r) == Cardinality({i \in DOMAIN cards : rankValue(cards[i]) = r})
  IN \/ Len(cards) = 4 /\ Cardinality(ranks) = 1
     \/ /\ Len(cards) \in {6, 8}
        /\ \A r \in ranks : count(r) = 2
        /\ \E lo \in ranks : ranks = lo..(lo + (Len(cards) \div 2) - 1)

\* C24: on a single 2, the play_cards checks accept a three-pairs-run, a
\* four-pairs-run and four cards of one rank.
C24_BombBeatsTwo ==
  (/\ verdict.cu.done
   /\ callCombo.type = "single" /\ rankValue(callCombo.cards[1]) = 13
   /\ C24_Bomb(callCards))
    => verdict.cu.accepted

\* C25: when saveRoomToDB fails, the handler that awaited it has completed
\* with the room it builds when the save succeeds (a disconnect marks the entry
\* and arms the grace timer, a join_room rebinds the entry, the grace timer
\* applies its pass), and with a failed save behind it the room still takes
\* the pass of its current actor.
C25_SaveFailureTolerated ==
  /\ [][saveResult' \in {"error", "thrown"} =>
          /\ \A u \in Users :
               (sock[u] # 0 /\ sock'[u] = 0 /\ IdxOfId(players, sock[u]) # 0)
                 => /\ players' = [players EXCEPT ![IdxOfId(players, sock[u])].connected = FALSE]
                    /\ (gameStarted /\ turn = sock[u]) => sock[u] \in graceTimers'
          /\ \A u \in Users :
               (sock[u] = 0 /\ sock'[u] # 0 /\ IdxOfUser(players, u) # 0)
                 => /\ players'[IdxOfUser(players, u)].connected
                    /\ players'[IdxOfUser(players, u)].id = sock'[u]
                    /\ Len(players') = Len(players)
          /\ \A sid \in SockIds :
               (C12_Pending(sid) /\ sid \notin graceTimers')
                 => /\ last' \in {"grace_pass", "grace_reset"}
                    /\ passes' = passes \cup {sid} \/ (passes' = {} /\ round' = round + 1)]_vars
  /\ [](\A u \in Users :
          (/\ saveResult \in {"error", "thrown"}
           /\ winner = NullId /\ round < MaxRound
           /\ gameStarted /\ sock[u] # 0 /\ turn = sock[u])
            => ENABLED (Pass(u) /\ last' \in {"pass", "pass_reset"}))

\* the grace timer has applied its pass although its save failed
C25_Witness ==
  /\ last \in {"grace_pass", "grace_reset"}
  /\ saveResult \in {"error", "thrown"}

\* C26: after deal_cards the starting current actor is a participant who
\* received a hand in that deal: a connected participant holding 13 cards.
\* Stated for rooms of at most four participants, two of them connected.
C26_StarterWasDealt ==
  (/\ last = "deal"
   /\ Len(players) <= NumChairs
   /\ Cardinality({i \in DOMAIN players : players[i].connected}) >= 2)
    => \E i \in DOMAIN players :
         /\ players[i].id = turn
         /\ players[i].connected
         /\ Len(players[i].hand) = cardsPerPlayer

\* C27: a participant who has passed in the running round is not the current
\* actor again before the round resets (the passed-set is emptied), whichever
\* handler moved the turn.
C27_PassedNotActor ==
  (gameStarted /\ winner = NullId) => turn \notin passes

\* C28: a bot's delayed play or pass changes the room only if, when the delay
\* elapses, the game is started, the bot is still in room.players, the bot is
\* the current actor and, for a play, every chosen card is still in its hand.
C28_BotRevalidates ==
  [][last' \in {"bot_play", "bot_win", "bot_pass", "bot_reset"}
       => \E tm \in botTimers \ botTimers' :
            /\ tm.kind \in {"play", "pass"}
            /\ gameStarted
            /\ IdxOfId(players, tm.bot) # 0
            /\ turn = tm.bot
            /\ \A k \in DOMAIN tm.cards :
                 tm.cards[k] \in Range(players[IdxOfId(players, tm.bot)].hand)]_vars

\* C29: when the ready countdown reaches zero and starts the game, the room
\* has at least 2 connected participants and every connected participant is
\* ready.
C29_ExpiryHasQuorum ==
  [][last' = "countdown_start" => AllReady(players)]_vars

\* C30: at most one countdown of a room is pending at any time, it is the one
\* room.countdownInterval refers to, and a sit, a stand or a participant's
\* disconnect leaves none pending, while a ready toggle leaves at most the one
\* it arms itself, with the full CountdownStart seconds to run; the countdown
\* that starts the game is that single pending one.
C30_CountdownCancelled ==
  /\ [](liveIntervals = IF countdownInterval THEN 1 ELSE 0)
  /\ [][/\ (Len(viewers') # Len(viewers)) => liveIntervals' = 0
        /\ (\E u \in Users : /\ sock[u] # 0
                             /\ sock'[u] = 0
                             /\ IdxOfId(players, sock[u]) # 0) => liveIntervals' = 0
        /\ (/\ gameStarted' = gameStarted
            /\ Len(players') = Len(players)
            /\ \E i \in DOMAIN players : players'[i].ready # players[i].ready)
             => /\ liveIntervals' <= 1
                /\ liveIntervals' = 1 => countdownTime' = CountdownStart
        /\ last' = "countdown_start" => liveIntervals = 1 /\ countdownInterval]_vars

\* a pending countdown has just been cleared by a sit, a stand or a disconnect
C30_Witness ==
  /\ last = "countdown_cleared"
  /\ liveIntervals = 0
  /\ ~gameStarted

\* C31: after an accepted start_game, restart_game or countdown expiry the
\* room is started and awaits the deal: pile empty, no current combination,
\* nobody passed, no last player, no current actor, no winner, round 1, every
\* hand empty and every ready flag false.
C31_StartIsClean ==
  last \in {"start_game", "restart_game", "countdown_start"}
    => /\ gameStarted
       /\ deckShuffled
       /\ pile = <<>>
       /\ currentCombination = NoCombo
       /\ passes = {}
       /\ lastPlayer = NullId
       /\ turn = NullId
       /\ winner = NullId
       /\ round = 1
       /\ \A i \in DOMAIN players : players[i].hand = <<>> /\ ~players[i].ready

\* a start_game accepted after a game that a winning play had ended
C31_Witness ==
  /\ last = "start_game"
  /\ winnerLastCards # <<>>

\* C32: after a winning play, by a human or by a bot, the turn state is
\* neutral: no current actor, nobody passed, no last player.
C32_WinClearsTurnState ==
  last \in {"play_win", "bot_win"}
    => /\ turn = NullId
       /\ passes = {}
       /\ lastPlayer = NullId

\* C33: every accepted play or pass (a human's, a bot's, the grace timer's, a
\* pass that resets the round included) is followed by a game_update broadcast
\* of the new state; stated for the moves after which no bot move is pending.
C33_MoveIsBroadcast ==
  (/\ last \in {"play", "play_win", "pass", "pass_reset", "grace_pass", "grace_reset",
                "bot_play", "bot_win", "bot_pass", "bot_reset"}
   /\ botTimers = {})
    => gameUpdates(last) >= 1

\* C34: when the join_room requests for a room id that was not in memory have
\* all completed, one room object is registered for the id and the player
\* list of that object holds every joiner.
C34_OneRoomHoldsAll ==
  (\A r \in 1..MaxRequests : requests[r].pc = "done")
    => /\ rooms # 0
       /\ \A r \in 1..MaxRequests :
            \E i \in DOMAIN roomObjects[rooms] : roomObjects[rooms][i] = r

\* C35: an accepted play_cards removes from the actor's hand as many cards as
\* it places on the pile, and every card of the pile was in the actor's hand
\* just before, also when the cards array names a card more than once.
C35_PileCameFromHand ==
  [][last' \in {"play", "play_win"}
       => LET i == IdxOfId(players, lastPlayer')
          IN /\ i # 0
             /\ Len(players[i].hand) - Len(players'[i].hand) = Len(pile')
             /\ \A k \in DOMAIN pile' : pile'[k] \in Range(players[i].hand)]_vars

\* C36: within a round every accepted human play that replaces a pile has the
\* type and the length of the combination it replaces and a strictly greater
\* rank, so that the plays of a round keep one type and length and grow in
\* strength.
C36_RoundKeepsType ==
  [][(last' \in {"play", "play_win"} /\ currentCombination # NoCombo)
       => /\ currentCombination'.type = currentCombination.type
          /\ currentCombination'.length = currentCombination.length
          /\ currentCombination'.rank > currentCombination.rank
          /\ round' = round]_vars

\* a human play accepted in the first round over the play of another
\* participant
C36_Witness ==
  /\ last = "play"
  /\ round = 1
  /\ \E i, j \in DOMAIN players :
       /\ i # j
       /\ players[i].id = lastPlayer
       /\ ~players[i].isBot
       /\ Len(players[i].hand) < TurnHand
       /\ Len(players[j].hand) < TurnHand

\* C37: whenever the current actor of a started game is a disconnected
\* participant, the turn eventually moves to another participant or the game
\* stops (checked from the states in which another human is connected and
\* every timer that was pending has fired).
C37_NoStallOnDisconnected ==
  \A sid \in SockIds :
    (/\ gameStarted
     /\ turn = sid
     /\ \E i \in DOMAIN players : players[i].id = sid /\ ~players[i].connected
     /\ \E j \in DOMAIN players : players[j].connected /\ ~players[j].isBot
     /\ graceTimers = {} /\ botTimers = {})
      ~> (turn # sid \/ ~gameStarted)

\* C38: whenever the current actor of a started game is a bot holding cards,
\* a bot action (makeBotMove, handleBotPlay or handleBotPass) of that bot is
\* pending.
C38_BotOnTurnIsScheduled ==
  \A i \in DOMAIN players :
    (/\ gameStarted
     /\ players[i].isBot
     /\ turn = players[i].id
     /\ Len(players[i].hand) > 0)
      => \E tm \in botTimers : tm.bot = players[i].id

\* C39: start_game, restart_game and the countdown expiry never reset a game
\* in progress (started, cards dealt, no winner): no hand is emptied and the
\* round is not set back while a game is being played.
C39_NoStartDuringGame ==
  [][last' \in {"start_game", "restart_game", "countdown_start"}
       => ~(/\ gameStarted
            /\ winner = NullId
            /\ \E i \in DOMAIN players : players[i].hand # <<>>)]_vars

\* C40: the periodic cleanup deletes a room from the registry only when it
\* has no participants or has been idle: a room with participants in which a
\* play or a pass was accepted since the previous cleanup run is not deleted.
C40_ActiveRoomStays ==
  [][(created /\ ~created')
       => \/ Len(players) + Len(viewers) = 0
          \/ last \notin {"play", "pass", "pass_reset"}]_vars

====
